---- MODULE Spec2Model ----
(***************************************************************************)
(* GymMatchMate: the user-to-user match state machine, the message channel *)
(* gated by it, and the realtime gateway, as implemented by                *)
(* server/routes.ts over DatabaseStorage (server/database-storage.ts), the *)
(* storage exported by server/storage.ts.                                  *)
(*                                                                         *)
(* Every storage call is one SQL statement and is atomic; a route handler  *)
(* awaits several of them.  Spec runs each handler to completion in one    *)
(* step.  SpecConc splits the handlers at the await between their lookup   *)
(* and their write, so that two requests interleave.  SpecGateway and       *)
(* SpecAnyClient use every connection of the gateway.  SpecScore and       *)
(* SpecScoreOnce are the gym recommendation: getMatchesForUser of          *)
(* DatabaseStorage and, for comparison, of the unused MemStorage.          *)
(***************************************************************************)
EXTENDS Integers, FiniteSets, Sequences, TLC

\* ---------------------------------------------------------------- bounds
NumUsers == 3        \* rows of the users table: ids 1..NumUsers
MaxMatchId == 2      \* the user_matches serial never exceeds this
MaxMessageId == 2    \* the messages serial never exceeds this
MaxTime == 1         \* the clock runs 0..MaxTime
MaxInflight == 2     \* requests in flight at once (SpecConc)
MaxChans == 2        \* WebSocket connections the model has room for
MsgMatchIds == 1     \* the user_matches serial in the message specifications
MsgChans == 1        \* connections used in the message specifications
ConcUsers == 2       \* users of the interleaved and the gateway specifications
NumGyms == 2         \* rows of the gyms table in the recommendation specification
MaxGoals == 2        \* length of a profile's fitnessGoals array
MaxPreferences == 2  \* length of a profile's gymPreferences array
MaxSavedGymId == 2   \* the saved_gyms serial never exceeds this
MaxClientSockets == 6 \* the hook creates at most this many WebSockets
MaxTimers == 3       \* reconnect timers pending at a time

Users == 1..NumUsers
Anonymous == 0                 \* a request without a session
GhostUser == NumUsers + 1      \* an id that is no row of users
Absent == -1                   \* a body field that is missing, so that the body fails to parse
Actors == Users \cup {Anonymous}
UserIds == Users \cup {GhostUser}
Statuses == {"pending", "accepted", "rejected"}
BodyStatuses == Statuses \cup {"none"}   \* req.body.status; "none" is absent
NoId == 0
WsIds == UserIds \cup {NoId}    \* ids a client may put in an event or the URL
Chans == 1..MaxChans
NoChan == 0
\* the content field of a message: absent, the empty string, or a text
Contents == {"absent", "", "hi"}

VARIABLES
  userMatches,    \* rows of user_matches
  nextMatchId,    \* the serial of user_matches.id
  messages,       \* rows of messages
  nextMessageId,  \* the serial of messages.id
  now,            \* the clock read by new Date() / defaultNow()
  resp,           \* what the last handler that completed answered
  inflight,       \* SpecConc: each request slot's handler position
  sockets,        \* the WebSocket of each connection: readyState, the userId of
                  \* its URL, and the client (the session) that opened it
  connectedClients, \* the gateway's registry: user id -> connection
  fitnessGoals,   \* users.fitness_goals of the user who asks for recommendations
  gymPreferences, \* users.gym_preferences of that user
  gymAmenities,   \* the gyms table: gyms.amenities of each gym, in the order selected
  matches,        \* what getMatchesForUser answered last, and of which storage
  savedGyms,      \* rows of saved_gyms
  nextSavedGymId, \* the serial of saved_gyms.id
  saving,         \* each request slot's saveGym call between its lookup and its write
  useWebSocket    \* one instance of the client's useWebSocket hook: its state, its ref,
                  \* the sockets it created, its reconnect timers, its last render

db == <<userMatches, nextMatchId, messages, nextMessageId>>
gateway == <<sockets, connectedClients>>
scorer == <<fitnessGoals, gymPreferences, gymAmenities, matches>>
saved == <<savedGyms, nextSavedGymId, saving>>
vars == <<userMatches, nextMatchId, messages, nextMessageId, now, resp, inflight,
          sockets, connectedClients, fitnessGoals, gymPreferences, gymAmenities, matches,
          savedGyms, nextSavedGymId, saving, useWebSocket>>

\* ------------------------------------------------------------ the tables
NoMatch == [id |-> NoId, senderId |-> NoId, receiverId |-> NoId,
            status |-> "none", createdAt |-> 0, updatedAt |-> 0]

NewUserMatch(id, senderId, receiverId, t) ==
  [id |-> id, senderId |-> senderId, receiverId |-> receiverId,
   status |-> "pending", createdAt |-> t, updatedAt |-> t]

NewMessage(id, senderId, receiverId, t) ==
  [id |-> id, senderId |-> senderId, receiverId |-> receiverId,
   read |-> FALSE, createdAt |-> t]

\* BetweenUsers looking in the direction asked only
BetweenUsersOneWay(rows, a, b) ==
  {m \in rows : m.senderId = a /\ m.receiverId = b}

\* rows between two users, in either direction
BetweenUsers(rows, a, b) ==
  {m \in rows : \/ (m.senderId = a /\ m.receiverId = b)
                \/ (m.senderId = b /\ m.receiverId = a)}

\* getUserMatch: the row with this id, or NoMatch (undefined)
getUserMatch(rows, id) ==
  IF \E m \in rows : m.id = id THEN CHOOSE m \in rows : m.id = id ELSE NoMatch

\* getUserMatchByUsers: `const [match] = await db.select()...` with no ORDER BY
\* answers any one of the rows that satisfy the WHERE clause, or undefined.
getUserMatchByUsers(rows, senderId, receiverId) ==
  IF BetweenUsers(rows, senderId, receiverId) = {} THEN {NoMatch}
  ELSE BetweenUsers(rows, senderId, receiverId)

\* updateUserMatchStatus: UPDATE ... SET status, updatedAt WHERE id
updateUserMatchStatus(rows, id, status, t) ==
  {IF m.id = id THEN [m EXCEPT !.status = status, !.updatedAt = t] ELSE m : m \in rows}

\* deleteUserMatch: DELETE ... WHERE id
deleteUserMatch(rows, id) == {m \in rows : m.id # id}

\* IsReciprocal with the direction test the wrong way round
IsReciprocalSameDirection(existing, senderId, receiverId) ==
  /\ existing.status = "pending"
  /\ existing.senderId = senderId
  /\ existing.receiverId = receiverId

\* IsReciprocal without the direction test
IsReciprocalAnyDirection(existing, senderId, receiverId) ==
  existing.status = "pending"

\* IsReciprocal without the status test
IsReciprocalAnyStatus(existing, senderId, receiverId) ==
  /\ existing.senderId = receiverId
  /\ existing.receiverId = senderId

\* the reciprocal test of createUserMatch
IsReciprocal(existing, senderId, receiverId) ==
  /\ existing.status = "pending"
  /\ existing.senderId = receiverId
  /\ existing.receiverId = senderId

\* createUserMatch after its lookup answered `existing`: the rows it leaves,
\* the row it returns, and the branch it took.
createUserMatch(rows, nid, existing, senderId, receiverId, t) ==
  IF existing # NoMatch
  THEN IF IsReciprocal(existing, senderId, receiverId)
       THEN [rows |-> updateUserMatchStatus(rows, existing.id, "accepted", t),
             nid |-> nid,
             ret |-> getUserMatch(updateUserMatchStatus(rows, existing.id, "accepted", t),
                                  existing.id),
             branch |-> "accepted"]
       ELSE [rows |-> rows, nid |-> nid, ret |-> existing, branch |-> "existing"]
  ELSE [rows |-> rows \cup {NewUserMatch(nid, senderId, receiverId, t)},
        nid |-> nid + 1,
        ret |-> NewUserMatch(nid, senderId, receiverId, t),
        branch |-> "created"]

\* ------------------------------------------------------------- responses
\* op: the operation; code: the HTTP status (0 on the WebSocket); ret: the integer
\* in the body, a row id or a count (NoId when there is none); branch: the branch
\* of the handler taken; list: the message ids of a conversation, in the order
\* answered; events: the events sent on WebSocket connections, <<chan, type, ref>>
RespFull(op, code, ret, branch, list, events) ==
  [op |-> op, code |-> code, ret |-> ret, branch |-> branch,
   list |-> list, events |-> events]

Resp(op, code, ret, branch) == RespFull(op, code, ret, branch, <<>>, {})

NoResp == Resp("none", 0, NoId, "none")

\* a request between its lookup and its write: the operation, its two
\* arguments, the status or the connection it carries, and the row its lookup gave
InFlight(op, a, b, arg, snap) ==
  [op |-> op, a |-> a, b |-> b, arg |-> arg, snap |-> snap]

Idle == InFlight("idle", NoId, NoId, "none", NoMatch)

\* a nullable array column: null, or the array
Column(items) == [null |-> FALSE, items |-> items]
NullColumn == [null |-> TRUE, items |-> <<>>]

\* GET /api/matches has not answered yet
NoMatches == [code |-> 0, userId |-> NoId, storage |-> "none", list |-> <<>>]

\* getSavedGym answering undefined
NoSavedGym == [id |-> NoId, userId |-> NoId, gymId |-> NoId, matchScore |-> 0, savedAt |-> 0]

\* a request slot with no saveGym call in it
NotSaving == [op |-> "idle", userId |-> NoId, gymId |-> NoId, matchScore |-> 0,
              existing |-> NoSavedGym]

\* saved_gyms is empty and no saveGym call is under way
InitSaved ==
  /\ savedGyms = {}
  /\ nextSavedGymId = 1
  /\ saving = [p \in 1..MaxInflight |-> NotSaving]

\* the hook before its first render: no socket, no timer, state false
InitHook ==
  useWebSocket = [sockets |-> [s \in 1..MaxClientSockets |-> "none"],
                  socketRef |-> 0,
                  isConnected |-> FALSE,
                  isConnecting |-> FALSE,
                  timers |-> 0,
                  rendered |-> [mounted |-> FALSE, isConnected |-> FALSE,
                                isConnecting |-> FALSE]]

\* a connection slot that holds no WebSocket
NoSocket == [readyState |-> "none", userId |-> NoId, client |-> Anonymous]

Init ==
  /\ userMatches = {}
  /\ nextMatchId = 1
  /\ messages = {}
  /\ nextMessageId = 1
  /\ now = 0
  /\ resp = NoResp
  /\ inflight = [p \in 1..MaxInflight |-> Idle]
  /\ sockets = [c \in Chans |-> NoSocket]
  /\ connectedClients = [u \in WsIds |-> NoChan]
  /\ fitnessGoals = Column(<<>>)
  /\ gymPreferences = Column(<<>>)
  /\ gymAmenities = <<>>
  /\ matches = NoMatches
  /\ InitSaved
  /\ InitHook

\* time passes
Tick ==
  /\ now < MaxTime
  /\ now' = now + 1
  /\ UNCHANGED <<db, resp, inflight, gateway, scorer, saved, useWebSocket>>

\* ------------------------------------------- POST /api/user-matches
\* the checks before storage.createUserMatch: the status they answer, 0 to go on
PostUserMatchGate(actor, senderId, receiverId) ==
  IF actor = Anonymous THEN 401
  ELSE IF receiverId = Absent THEN 400
  ELSE IF senderId # actor THEN 403
  ELSE IF receiverId \notin Users THEN 404
  ELSE 0

\* requestMatch, run to completion
PostUserMatch(actor, senderId, receiverId) ==
  /\ UNCHANGED <<messages, nextMessageId, now, inflight, gateway, scorer, saved, useWebSocket>>
  /\ IF PostUserMatchGate(actor, senderId, receiverId) # 0
     THEN /\ resp' = Resp("requestMatch",
                          PostUserMatchGate(actor, senderId, receiverId), NoId, "none")
          /\ UNCHANGED <<userMatches, nextMatchId>>
     ELSE \E existing \in getUserMatchByUsers(userMatches, senderId, receiverId) :
            LET r == createUserMatch(userMatches, nextMatchId, existing,
                                     senderId, receiverId, now)
            IN /\ r.nid <= MaxMatchId + 1
               /\ userMatches' = r.rows
               /\ nextMatchId' = r.nid
               /\ resp' = Resp("requestMatch", 201, r.ret.id, r.branch)

\* ------------------------------------------- PUT /api/user-matches/:id
\* ValidStatuses without the route's restriction
AnyStatus == {"pending", "accepted", "rejected"}

\* the statuses the route accepts in req.body.status
ValidStatuses == {"accepted", "rejected"}

\* PutUserMatchGate letting either participant respond
PutUserMatchGateParticipant(actor, status, match) ==
  IF actor = Anonymous THEN 401
  ELSE IF status \notin ValidStatuses THEN 400
  ELSE IF match = NoMatch THEN 404
  ELSE IF match.receiverId # actor /\ match.senderId # actor THEN 403
  ELSE 0

\* the checks before storage.updateUserMatchStatus, on the row getUserMatch gave
PutUserMatchGate(actor, status, match) ==
  IF actor = Anonymous THEN 401
  ELSE IF status \notin ValidStatuses THEN 400
  ELSE IF match = NoMatch THEN 404
  ELSE IF match.receiverId # actor THEN 403
  ELSE 0

\* respondToMatch, run to completion
PutUserMatch(actor, id, status) ==
  /\ UNCHANGED <<nextMatchId, messages, nextMessageId, now, inflight, gateway, scorer, saved, useWebSocket>>
  /\ LET match == getUserMatch(userMatches, id)
         gate == PutUserMatchGate(actor, status, match)
     IN IF gate # 0
        THEN /\ resp' = Resp("respondToMatch", gate, NoId, "none")
             /\ UNCHANGED userMatches
        ELSE /\ userMatches' = updateUserMatchStatus(userMatches, id, status, now)
             /\ resp' = Resp("respondToMatch", 200, id, "updated")

\* ---------------------------------------- DELETE /api/user-matches/:id
\* DeleteUserMatchGate without the participant test
DeleteUserMatchGateAnyUser(actor, match) ==
  IF actor = Anonymous THEN 401
  ELSE IF match = NoMatch THEN 404
  ELSE 0

\* the checks before storage.deleteUserMatch, on the row getUserMatch gave
DeleteUserMatchGate(actor, match) ==
  IF actor = Anonymous THEN 401
  ELSE IF match = NoMatch THEN 404
  ELSE IF match.senderId # actor /\ match.receiverId # actor THEN 403
  ELSE 0

\* the answer after storage.deleteUserMatch: 500 when no row was deleted
DeleteUserMatchCode(rows, id) ==
  IF deleteUserMatch(rows, id) = rows THEN 500 ELSE 204

\* deleteMatch, run to completion
DeleteUserMatch(actor, id) ==
  /\ UNCHANGED <<nextMatchId, messages, nextMessageId, now, inflight, gateway, scorer, saved, useWebSocket>>
  /\ LET match == getUserMatch(userMatches, id)
         gate == DeleteUserMatchGate(actor, match)
     IN IF gate # 0
        THEN /\ resp' = Resp("deleteMatch", gate, NoId, "none")
             /\ UNCHANGED userMatches
        ELSE /\ userMatches' = deleteUserMatch(userMatches, id)
             /\ resp' = Resp("deleteMatch", DeleteUserMatchCode(userMatches, id),
                             id, "deleted")

\* ------------------------------------------------------ message storage
\* the orders in which ORDER BY created_at may answer these rows: ascending
\* createdAt, rows of equal createdAt in any order
OrderedByCreatedAt(rows) ==
  {q \in [1..Cardinality(rows) -> {m.id : m \in rows}] :
     /\ \A i, j \in 1..Cardinality(rows) : i # j => q[i] # q[j]
     /\ \A i, j \in 1..Cardinality(rows) :
          i < j => \A mi, mj \in rows :
                     (mi.id = q[i] /\ mj.id = q[j]) => mi.createdAt <= mj.createdAt}

\* getMessages without the second branch of its `or`
getMessagesOneWay(rows, userId, otherUserId) ==
  OrderedByCreatedAt({m \in rows : m.senderId = userId /\ m.receiverId = otherUserId})

\* getMessages: the conversation of two users, oldest first
getMessages(rows, userId, otherUserId) ==
  OrderedByCreatedAt(BetweenUsers(rows, userId, otherUserId))

\* getUnreadMessageCount: SELECT count(*) WHERE receiver_id = userId AND read = false
getUnreadMessageCount(rows, userId) ==
  Cardinality({m \in rows : m.receiverId = userId /\ m.read = FALSE})

\* createMessage: INSERT; id from the serial, read and createdAt from the defaults
createMessage(rows, nid, senderId, receiverId, t) ==
  rows \cup {NewMessage(nid, senderId, receiverId, t)}

\* markMessagesAsRead with the two users the wrong way round
markMessagesAsReadSwapped(rows, receiverId, senderId) ==
  {IF m.receiverId = senderId /\ m.senderId = receiverId /\ m.read = FALSE
   THEN [m EXCEPT !.read = TRUE] ELSE m : m \in rows}

\* markMessagesAsRead: UPDATE SET read = true WHERE receiver, sender, read = false
markMessagesAsRead(rows, receiverId, senderId) ==
  {IF m.receiverId = receiverId /\ m.senderId = senderId /\ m.read = FALSE
   THEN [m EXCEPT !.read = TRUE] ELSE m : m \in rows}

\* AcceptedGate asking only that a row exists
AcceptedGateAnyRow(match) ==
  IF match = NoMatch THEN 403 ELSE 0

\* the match test of the message routes: 403 unless the row is an accepted match
AcceptedGate(match) ==
  IF match = NoMatch \/ match.status # "accepted" THEN 403 ELSE 0

\* ------------------------------------------------- POST /api/messages
\* the checks before the match lookup
PostMessageGate(actor, senderId, receiverId, content) ==
  IF actor = Anonymous THEN 401
  ELSE IF content = "absent" THEN 400
  ELSE IF senderId # actor THEN 403
  ELSE IF receiverId \notin Users THEN 404
  ELSE 0

\* sendMessage over REST, run to completion
PostMessage(actor, senderId, receiverId, content) ==
  /\ UNCHANGED <<userMatches, nextMatchId, inflight, gateway, now, scorer, saved, useWebSocket>>
  /\ IF PostMessageGate(actor, senderId, receiverId, content) # 0
     THEN /\ resp' = Resp("sendMessage",
                          PostMessageGate(actor, senderId, receiverId, content),
                          NoId, "none")
          /\ UNCHANGED <<messages, nextMessageId>>
     ELSE \E match \in getUserMatchByUsers(userMatches, senderId, receiverId) :
            IF AcceptedGate(match) # 0
            THEN /\ resp' = Resp("sendMessage", AcceptedGate(match), NoId, "not_matched")
                 /\ UNCHANGED <<messages, nextMessageId>>
            ELSE /\ nextMessageId <= MaxMessageId
                 /\ messages' = createMessage(messages, nextMessageId,
                                              senderId, receiverId, now)
                 /\ nextMessageId' = nextMessageId + 1
                 /\ resp' = Resp("sendMessage", 201, nextMessageId, "created")

\* ------------------------------------------ GET /api/messages/:userId
GetMessagesGate(actor, otherUserId) ==
  IF actor = Anonymous THEN 401
  ELSE IF otherUserId \notin Users THEN 404
  ELSE 0

\* getConversation, run to completion
GetMessages(actor, otherUserId) ==
  /\ UNCHANGED <<userMatches, nextMatchId, nextMessageId, inflight, gateway, now, scorer, saved, useWebSocket>>
  /\ IF GetMessagesGate(actor, otherUserId) # 0
     THEN /\ resp' = Resp("getConversation", GetMessagesGate(actor, otherUserId),
                          NoId, "none")
          /\ UNCHANGED messages
     ELSE \E match \in getUserMatchByUsers(userMatches, actor, otherUserId) :
            IF AcceptedGate(match) # 0
            THEN /\ resp' = Resp("getConversation", AcceptedGate(match),
                                 NoId, "not_matched")
                 /\ UNCHANGED messages
            ELSE /\ messages' = markMessagesAsRead(messages, actor, otherUserId)
                 /\ \E list \in getMessages(messages, actor, otherUserId) :
                      resp' = RespFull("getConversation", 200, NoId, "read", list, {})

\* ------------------------------------- GET /api/messages/unread/count
GetUnreadCount(actor) ==
  /\ UNCHANGED <<db, inflight, gateway, now, scorer, saved, useWebSocket>>
  /\ IF actor = Anonymous
     THEN resp' = Resp("unreadCount", 401, NoId, "none")
     ELSE resp' = Resp("unreadCount", 200, getUnreadMessageCount(messages, actor), "count")

\* ------------------------------------------------ the realtime gateway
\* HasUserId letting every connection through
HasUserIdAlways(userId) == TRUE

\* the test of the user id read from the URL: 0, none and NaN are refused
HasUserId(userId) == userId # NoId

\* wss.on('connection') for a connection opened by `client` (the session of the
\* upgrade request, which the handler never reads): the user id is read from
\* the URL; 0 or none closes, any other id is registered
WsConnectAs(c, client, userId) ==
  /\ sockets[c].readyState = "none"
  /\ UNCHANGED <<db, inflight, now, scorer, saved, useWebSocket>>
  /\ IF ~HasUserId(userId)
     THEN /\ UNCHANGED gateway
          /\ resp' = RespFull("connect", 0, NoId, "closed", <<>>, {})
     ELSE /\ sockets' = [sockets EXCEPT ![c] = [readyState |-> "open", userId |-> userId,
                                               client |-> client]]
          /\ connectedClients' = [connectedClients EXCEPT ![userId] = c]
          /\ resp' = RespFull("connect", 0, c, "registered", <<>>, {})

\* a connection whose URL carries the id of the user who opened it
WsConnect(c, userId) == WsConnectAs(c, userId, userId)

\* the connection stops being OPEN (a close frame, a network failure); its
\* 'close' event has not been dispatched yet
WsDrop(c) ==
  /\ sockets[c].readyState = "open"
  /\ sockets' = [sockets EXCEPT ![c].readyState = "closed"]
  /\ UNCHANGED <<db, inflight, now, resp, connectedClients, scorer, saved, useWebSocket>>

\* ws.on('close'): connectedClients.delete(userId)
WsOnClose(c) ==
  /\ sockets[c].readyState = "closed"
  /\ connectedClients' = [connectedClients EXCEPT ![sockets[c].userId] = NoChan]
  /\ sockets' = [sockets EXCEPT ![c] = NoSocket]
  /\ resp' = RespFull("close", 0, c, "unregistered", <<>>, {})
  /\ UNCHANGED <<db, inflight, now, scorer, saved, useWebSocket>>

\* WsSendGate without the test of the claimed sender
WsSendGateAnySender(userId, senderId, receiverId, content) ==
  IF senderId = NoId \/ receiverId = NoId \/ content \in {"absent", ""}
  THEN "invalid"
  ELSE "ok"

\* the checks of a send_message event before the match lookup: the error, or "ok"
WsSendGate(userId, senderId, receiverId, content) ==
  IF senderId = NoId \/ receiverId = NoId \/ content \in {"absent", ""}
  THEN "invalid"
  ELSE IF senderId # userId THEN "not_self"
  ELSE "ok"

\* WsSentEvents pushing to the registered connection whatever its readyState
WsSentEventsAnyState(c, receiverId, id) ==
  {<<c, "message_sent", id>>} \cup
  (IF /\ receiverId \in DOMAIN connectedClients
      /\ connectedClients[receiverId] # NoChan
   THEN {<<connectedClients[receiverId], "new_message", id>>}
   ELSE {})

\* the events after createMessage: the confirmation, and the push to the
\* receiver's registered connection when that is OPEN
WsSentEvents(c, receiverId, id) ==
  {<<c, "message_sent", id>>} \cup
  (IF /\ receiverId \in DOMAIN connectedClients
      /\ connectedClients[receiverId] # NoChan
      /\ sockets[connectedClients[receiverId]].readyState = "open"
   THEN {<<connectedClients[receiverId], "new_message", id>>}
   ELSE {})

\* a send_message event on connection c, run to completion
WsSendMessage(c, senderId, receiverId, content) ==
  /\ sockets[c].readyState = "open"
  /\ UNCHANGED <<userMatches, nextMatchId, inflight, gateway, now, scorer, saved, useWebSocket>>
  /\ LET gate == WsSendGate(sockets[c].userId, senderId, receiverId, content)
     IN IF gate # "ok"
        THEN /\ resp' = RespFull("wsSend", 0, NoId, gate, <<>>, {<<c, "error", NoId>>})
             /\ UNCHANGED <<messages, nextMessageId>>
        ELSE \E match \in getUserMatchByUsers(userMatches, senderId, receiverId) :
               IF AcceptedGate(match) # 0
               THEN /\ resp' = RespFull("wsSend", 0, NoId, "not_matched", <<>>,
                                        {<<c, "error", NoId>>})
                    /\ UNCHANGED <<messages, nextMessageId>>
               ELSE /\ nextMessageId <= MaxMessageId
                    /\ messages' = createMessage(messages, nextMessageId,
                                                 senderId, receiverId, now)
                    /\ nextMessageId' = nextMessageId + 1
                    /\ resp' = RespFull("wsSend", 0, nextMessageId, "created", <<>>,
                                        WsSentEvents(c, receiverId, nextMessageId))

\* a read_messages event on connection c, run to completion
WsReadMessages(c, senderId) ==
  /\ sockets[c].readyState = "open"
  /\ UNCHANGED <<userMatches, nextMatchId, nextMessageId, inflight, gateway, now, scorer, saved, useWebSocket>>
  /\ IF senderId = NoId
     THEN /\ resp' = RespFull("wsRead", 0, NoId, "invalid", <<>>, {<<c, "error", NoId>>})
          /\ UNCHANGED messages
     ELSE /\ messages' = markMessagesAsRead(messages, sockets[c].userId, senderId)
          /\ resp' = RespFull("wsRead", 0, senderId, "read", <<>>,
                              {<<c, "messages_read", senderId>>})

\* an event of another type, or a frame that is not JSON: the default case and
\* the catch answer an error event
WsOtherEvent(c) ==
  /\ sockets[c].readyState = "open"
  /\ resp' = RespFull("wsOther", 0, NoId, "unknown", <<>>, {<<c, "error", NoId>>})
  /\ UNCHANGED <<db, inflight, gateway, now, scorer, saved, useWebSocket>>

\* ------------------------------------------------- GET /api/matches
\* DatabaseStorage.getMatchesForUser, the scorer of the storage in use
BaseScore == 75       \* Math.floor(Math.random() * 15) + 75
RandomSpan == 15
BoostPerMatch == 2
ScoreCap == 100

\* the values Math.floor(Math.random() * 15) + 75 may take
RandomBases == {BaseScore + r : r \in 0..(RandomSpan - 1)}

\* A label (a goal, a preference, an amenity) is the sequence of its characters.
\* the goalToAmenity table; a goal that is no key has no related amenity
goalToAmenity(goal) ==
  CASE goal = <<"B", "u", "i", "l", "d", " ", "M", "u", "s", "c", "l", "e">>   \* Build Muscle
       -> {<<"F", "r", "e", "e", " ", "W", "e", "i", "g", "h", "t", "s">>,
           <<"W", "e", "i", "g", "h", "t", " ", "T", "r", "a", "i", "n", "i", "n", "g">>,
           <<"P", "e", "r", "s", "o", "n", "a", "l", " ", "T", "r", "a", "i", "n", "i", "n", "g">>}
    [] goal = <<"W", "e", "i", "g", "h", "t", " ", "L", "o", "s", "s">>   \* Weight Loss
       -> {<<"C", "a", "r", "d", "i", "o", " ", "E", "q", "u", "i", "p", "m", "e", "n", "t">>,
           <<"C", "l", "a", "s", "s", "e", "s">>,
           <<"S", "w", "i", "m", "m", "i", "n", "g", " ", "P", "o", "o", "l">>}
    [] goal = <<"I", "m", "p", "r", "o", "v", "e", " ", "S", "t", "r", "e", "n", "g", "t", "h">>   \* Improve Strength
       -> {<<"F", "r", "e", "e", " ", "W", "e", "i", "g", "h", "t", "s">>,
           <<"W", "e", "i", "g", "h", "t", " ", "T", "r", "a", "i", "n", "i", "n", "g">>,
           <<"C", "r", "o", "s", "s", "F", "i", "t">>}
    [] OTHER -> {}

\* the boost of the two forEach loops: BoostPerMatch for each goal of the array
\* and each of its related amenities that gym.amenities includes
RECURSIVE GoalBoost(_, _)
GoalBoost(goals, amenities) ==
  IF goals = <<>> THEN 0
  ELSE BoostPerMatch
         * Cardinality({r \in goalToAmenity(Head(goals)) :
                          \E j \in 1..Len(amenities) : amenities[j] = r})
       + GoalBoost(Tail(goals), amenities)

\* CapScore without the cap
Uncapped(score) == score

\* Math.min(matchScore, 100)
CapScore(score) == IF score < ScoreCap THEN score ELSE ScoreCap

\* the score of one gym, from the random base drawn for it
matchScore(base, goals, amenities) ==
  CapScore(base + (IF goals.null \/ amenities.null THEN 0
                   ELSE GoalBoost(goals.items, amenities.items)))

\* Array.prototype.sort((a, b) => b.matchScore - a.matchScore), which is stable:
\* descending score, gyms of equal score in the order they had
InsertByScore(sorted, e) ==
  LET k == Cardinality({i \in 1..Len(sorted) : sorted[i].matchScore >= e.matchScore})
  IN SubSeq(sorted, 1, k) \o <<e>> \o SubSeq(sorted, k + 1, Len(sorted))

RECURSIVE SortByMatchScore(_)
SortByMatchScore(list) ==
  IF list = <<>> THEN <<>>
  ELSE InsertByScore(SortByMatchScore(SubSeq(list, 1, Len(list) - 1)), list[Len(list)])

\* getMatchesForUser for an existing user, bases[i] the random base of gym i
getMatchesForUser(goals, gyms, bases) ==
  SortByMatchScore([i \in DOMAIN gyms |->
                      [id |-> i, matchScore |-> matchScore(bases[i], goals, gyms[i])]])

\* the answer of a recommendation request
Matches(code, userId, storage, list) ==
  [code |-> code, userId |-> userId, storage |-> storage, list |-> list]

\* the recommendation request, run to completion; a user id that is no row of
\* users gets the empty list
GetMatches(actor) ==
  /\ UNCHANGED <<db, now, resp, inflight, gateway,
                 fitnessGoals, gymPreferences, gymAmenities, saved, useWebSocket>>
  /\ IF actor = Anonymous
     THEN matches' = Matches(401, actor, "database", <<>>)
     ELSE IF actor \notin Users
     THEN matches' = Matches(200, actor, "database", <<>>)
     ELSE \E bases \in [DOMAIN gymAmenities -> RandomBases] :
            matches' = Matches(200, actor, "database",
                               getMatchesForUser(fitnessGoals, gymAmenities, bases))

\* ------------------------------------- MemStorage.getMatchesForUser
\* the scorer of the storage that is not in use
MemBaseScore == 70
GoalBonusCap == 15
GoalBonusPerMatch == 3
PrefBonusCap == 20
PrefBonusPerMatch == 5
FactorWeight == 20
MinWordLength == 3

\* String.prototype.toLowerCase, on the letters
Lower(ch) ==
  CASE ch = "A" -> "a" [] ch = "B" -> "b" [] ch = "C" -> "c" [] ch = "D" -> "d"
    [] ch = "E" -> "e" [] ch = "F" -> "f" [] ch = "G" -> "g" [] ch = "H" -> "h"
    [] ch = "I" -> "i" [] ch = "J" -> "j" [] ch = "K" -> "k" [] ch = "L" -> "l"
    [] ch = "M" -> "m" [] ch = "N" -> "n" [] ch = "O" -> "o" [] ch = "P" -> "p"
    [] ch = "Q" -> "q" [] ch = "R" -> "r" [] ch = "S" -> "s" [] ch = "T" -> "t"
    [] ch = "U" -> "u" [] ch = "V" -> "v" [] ch = "W" -> "w" [] ch = "X" -> "x"
    [] ch = "Y" -> "y" [] ch = "Z" -> "z" [] OTHER -> ch

toLowerCase(str) == [i \in 1..Len(str) |-> Lower(str[i])]

\* String.prototype.includes: sub occurs in str; the empty string occurs in all
includes(str, sub) ==
  \E i \in 0..(Len(str) - Len(sub)) : SubSeq(str, i + 1, i + Len(sub)) = sub

\* str.split(' ')
RECURSIVE split(_)
split(str) ==
  IF \A i \in 1..Len(str) : str[i] # " " THEN <<str>>
  ELSE LET k == CHOOSE i \in 1..Len(str) :
                  str[i] = " " /\ \A j \in 1..(i - 1) : str[j] # " "
       IN <<SubSeq(str, 1, k - 1)>> \o split(SubSeq(str, k + 1, Len(str)))

MemGoalToAmenity ==
  <<
    \* Build Muscle: Free Weights, Weight Training, Personal Training, Strength Equipment
    [goal |-> <<"B", "u", "i", "l", "d", " ", "M", "u", "s", "c", "l", "e">>,
     amenities |-> <<<<"F", "r", "e", "e", " ", "W", "e", "i", "g", "h", "t", "s">>,
                     <<"W", "e", "i", "g", "h", "t", " ", "T", "r", "a", "i", "n", "i", "n", "g">>,
                     <<"P", "e", "r", "s", "o", "n", "a", "l", " ", "T", "r", "a", "i", "n", "i", "n", "g">>,
                     <<"S", "t", "r", "e", "n", "g", "t", "h", " ", "E", "q", "u", "i", "p", "m", "e", "n", "t">>>>],
    \* Weight Loss: Cardio Equipment, Classes, Swimming Pool, Group Training
    [goal |-> <<"W", "e", "i", "g", "h", "t", " ", "L", "o", "s", "s">>,
     amenities |-> <<<<"C", "a", "r", "d", "i", "o", " ", "E", "q", "u", "i", "p", "m", "e", "n", "t">>,
                     <<"C", "l", "a", "s", "s", "e", "s">>,
                     <<"S", "w", "i", "m", "m", "i", "n", "g", " ", "P", "o", "o", "l">>,
                     <<"G", "r", "o", "u", "p", " ", "T", "r", "a", "i", "n", "i", "n", "g">>>>],
    \* Improve Strength: Free Weights, Weight Training, CrossFit, Functional Training
    [goal |-> <<"I", "m", "p", "r", "o", "v", "e", " ", "S", "t", "r", "e", "n", "g", "t", "h">>,
     amenities |-> <<<<"F", "r", "e", "e", " ", "W", "e", "i", "g", "h", "t", "s">>,
                     <<"W", "e", "i", "g", "h", "t", " ", "T", "r", "a", "i", "n", "i", "n", "g">>,
                     <<"C", "r", "o", "s", "s", "F", "i", "t">>,
                     <<"F", "u", "n", "c", "t", "i", "o", "n", "a", "l", " ", "T", "r", "a", "i", "n", "i", "n", "g">>>>],
    \* Cardio: Treadmills, Ellipticals, Rowing Machines, Cardio Equipment
    [goal |-> <<"C", "a", "r", "d", "i", "o">>,
     amenities |-> <<<<"T", "r", "e", "a", "d", "m", "i", "l", "l", "s">>,
                     <<"E", "l", "l", "i", "p", "t", "i", "c", "a", "l", "s">>,
                     <<"R", "o", "w", "i", "n", "g", " ", "M", "a", "c", "h", "i", "n", "e", "s">>,
                     <<"C", "a", "r", "d", "i", "o", " ", "E", "q", "u", "i", "p", "m", "e", "n", "t">>>>],
    \* Flexibility: Yoga Classes, Stretching Area, Group Classes
    [goal |-> <<"F", "l", "e", "x", "i", "b", "i", "l", "i", "t", "y">>,
     amenities |-> <<<<"Y", "o", "g", "a", " ", "C", "l", "a", "s", "s", "e", "s">>,
                     <<"S", "t", "r", "e", "t", "c", "h", "i", "n", "g", " ", "A", "r", "e", "a">>,
                     <<"G", "r", "o", "u", "p", " ", "C", "l", "a", "s", "s", "e", "s">>>>],
    \* Endurance: Cardio Equipment, Swimming Pool, Running Track
    [goal |-> <<"E", "n", "d", "u", "r", "a", "n", "c", "e">>,
     amenities |-> <<<<"C", "a", "r", "d", "i", "o", " ", "E", "q", "u", "i", "p", "m", "e", "n", "t">>,
                     <<"S", "w", "i", "m", "m", "i", "n", "g", " ", "P", "o", "o", "l">>,
                     <<"R", "u", "n", "n", "i", "n", "g", " ", "T", "r", "a", "c", "k">>>>],
    \* Agility: Functional Training, CrossFit, Group Classes
    [goal |-> <<"A", "g", "i", "l", "i", "t", "y">>,
     amenities |-> <<<<"F", "u", "n", "c", "t", "i", "o", "n", "a", "l", " ", "T", "r", "a", "i", "n", "i", "n", "g">>,
                     <<"C", "r", "o", "s", "s", "F", "i", "t">>,
                     <<"G", "r", "o", "u", "p", " ", "C", "l", "a", "s", "s", "e", "s">>>>]
  >>

\* the amenities that fit most goals
DefaultAmenities ==
  <<<<"C", "l", "a", "s", "s", "e", "s">>,
    <<"P", "e", "r", "s", "o", "n", "a", "l", " ", "T", "r", "a", "i", "n", "i", "n", "g">>,
    <<"E", "q", "u", "i", "p", "m", "e", "n", "t">>>>

\* the amenities of the entries k.. of the table whose goal contains goalLower
\* or is contained in it, in the order of the table
RECURSIVE KnownAmenities(_, _)
KnownAmenities(goalLower, k) ==
  IF k > Len(MemGoalToAmenity) THEN <<>>
  ELSE LET knownLower == toLowerCase(MemGoalToAmenity[k].goal)
       IN (IF includes(goalLower, knownLower) \/ includes(knownLower, goalLower)
           THEN MemGoalToAmenity[k].amenities ELSE <<>>)
          \o KnownAmenities(goalLower, k + 1)

\* relatedAmenities of one goal
RelatedAmenities(goal) ==
  LET known == KnownAmenities(toLowerCase(goal), 1)
  IN IF known = <<>> THEN DefaultAmenities ELSE known

\* the test of the inner loop of the goal dimension
AmenityFits(gymAmenity, amenity) ==
  LET gymAmenityLower == toLowerCase(gymAmenity)
      amenityLower == toLowerCase(amenity)
  IN \/ includes(gymAmenityLower, amenityLower)
     \/ includes(amenityLower, gymAmenityLower)

\* what one goal adds to amenityMatchCount: the pairs of a related amenity and
\* a gym amenity that fit
GoalAmenityMatches(goal, amenities) ==
  LET related == RelatedAmenities(goal)
  IN Cardinality({q \in (1..Len(related)) \X (1..Len(amenities)) :
                    AmenityFits(amenities[q[2]], related[q[1]])})

RECURSIVE amenityMatchCount(_, _)
amenityMatchCount(goals, amenities) ==
  IF goals = <<>> THEN 0
  ELSE GoalAmenityMatches(Head(goals), amenities)
       + amenityMatchCount(Tail(goals), amenities)

\* the goals for which foundMatch is set
matchCount(goals, amenities) ==
  Cardinality({g \in 1..Len(goals) : GoalAmenityMatches(goals[g], amenities) > 0})

\* the test of the inner loop of the preference dimension
PreferenceFits(preference, amenity) ==
  LET prefLower == toLowerCase(preference)
      amenityLower == toLowerCase(amenity)
      words == split(amenityLower)
  IN \/ includes(prefLower, amenityLower)
     \/ includes(amenityLower, prefLower)
     \/ \E w \in 1..Len(words) :
          includes(prefLower, words[w]) /\ Len(words[w]) > MinWordLength

preferenceMatches(preferences, amenities) ==
  Cardinality({q \in (1..Len(preferences)) \X (1..Len(amenities)) :
                 PreferenceFits(preferences[q[1]], amenities[q[2]])})

Min(a, b) == IF a < b THEN a ELSE b

\* Math.round of the non-negative fraction num / den
Round(num, den) == (2 * num + den) \div (2 * den)

\* the dimensions the scorer considers
GoalDimension(goals, amenities) ==
  ~goals.null /\ ~amenities.null /\ Len(goals.items) > 0

PreferenceDimension(preferences, amenities) ==
  ~preferences.null /\ Len(preferences.items) > 0 /\ ~amenities.null

\* totalFactors: one for each dimension considered
totalFactors(goals, preferences, amenities) ==
  (IF GoalDimension(goals, amenities) THEN 1 ELSE 0)
  + (IF PreferenceDimension(preferences, amenities) THEN 1 ELSE 0)

\* the bonus points of the two dimensions
GoalBonus(goals, amenities) ==
  IF GoalDimension(goals, amenities)
  THEN Min(GoalBonusCap, amenityMatchCount(goals.items, amenities.items) * GoalBonusPerMatch)
  ELSE 0

PreferenceBonus(preferences, amenities) ==
  IF PreferenceDimension(preferences, amenities)
  THEN Min(PrefBonusCap,
           preferenceMatches(preferences.items, amenities.items) * PrefBonusPerMatch)
  ELSE 0

\* matchingFactors as the fraction num / den: goalMatchPercentage when it is
\* above one half, plus prefMatchPercentage
MatchingFactors(goals, preferences, amenities) ==
  LET gl == IF GoalDimension(goals, amenities) THEN Len(goals.items) ELSE 1
      pl == IF PreferenceDimension(preferences, amenities)
            THEN Len(preferences.items) ELSE 1
      mc == IF GoalDimension(goals, amenities)
            THEN matchCount(goals.items, amenities.items) ELSE 0
      pm == IF PreferenceDimension(preferences, amenities)
            THEN Min(pl, preferenceMatches(preferences.items, amenities.items)) ELSE 0
  IN [num |-> (IF 2 * mc > gl THEN mc * pl ELSE 0) + pm * gl, den |-> gl * pl]

\* the score before Math.round and the cap, as the fraction num / den
MemRawScore(goals, preferences, amenities) ==
  LET mf == MatchingFactors(goals, preferences, amenities)
      tf == totalFactors(goals, preferences, amenities)
      flat == MemBaseScore + GoalBonus(goals, amenities)
              + PreferenceBonus(preferences, amenities)
  IN IF tf > 0
     THEN [num |-> flat * mf.den * tf + FactorWeight * mf.num, den |-> mf.den * tf]
     ELSE [num |-> flat, den |-> 1]

\* Math.min(100, Math.round(matchScore))
MemMatchScore(goals, preferences, amenities) ==
  LET raw == MemRawScore(goals, preferences, amenities)
  IN Min(ScoreCap, Round(raw.num, raw.den))

\* MemStorage.getMatchesForUser for an existing user
memGetMatchesForUser(goals, preferences, gyms) ==
  SortByMatchScore([i \in DOMAIN gyms |->
                      [id |-> i,
                       matchScore |-> MemMatchScore(goals, preferences, gyms[i])]])

\* a call of MemStorage.getMatchesForUser, which no route reaches
MemGetMatches(userId) ==
  /\ UNCHANGED <<db, now, resp, inflight, gateway,
                 fitnessGoals, gymPreferences, gymAmenities, saved, useWebSocket>>
  /\ IF userId \notin Users
     THEN matches' = Matches(200, userId, "memory", <<>>)
     ELSE matches' = Matches(200, userId, "memory",
                             memGetMatchesForUser(fitnessGoals, gymPreferences,
                                                  gymAmenities))

\* ------------------------------------------------------- saved gyms
\* getSavedGym: `const [savedGym] = await db.select()...` answers any one of the
\* rows of the pair, or undefined
getSavedGym(rows, userId, gymId) ==
  IF {r \in rows : r.userId = userId /\ r.gymId = gymId} = {} THEN {NoSavedGym}
  ELSE {r \in rows : r.userId = userId /\ r.gymId = gymId}

\* the checks of POST /api/saved-gyms before storage.saveGym; the gyms table is
\* gymAmenities
SaveGymGate(actor, gymId) ==
  IF actor = Anonymous THEN 401
  ELSE IF gymId = NoId THEN 400
  ELSE IF gymId \notin DOMAIN gymAmenities THEN 404
  ELSE 0

\* POST /api/saved-gyms up to the answer of saveGym's lookup
BeginSaveGym(p, actor, gymId, score) ==
  /\ saving[p] = NotSaving
  /\ UNCHANGED <<db, now, inflight, gateway, scorer, savedGyms, nextSavedGymId, useWebSocket>>
  /\ IF SaveGymGate(actor, gymId) # 0
     THEN /\ resp' = Resp("saveGym", SaveGymGate(actor, gymId), NoId, "none")
          /\ UNCHANGED saving
     ELSE /\ \E existing \in getSavedGym(savedGyms, actor, gymId) :
               saving' = [saving EXCEPT ![p] =
                            [op |-> "saveGym", userId |-> actor, gymId |-> gymId,
                             matchScore |-> score, existing |-> existing]]
          /\ UNCHANGED resp

\* saveGym after its lookup: the UPDATE of the score by id when the lookup gave
\* a row with another score, that row when the score is the same, the INSERT
\* when it gave none; then 201
EndSaveGym(p) ==
  /\ saving[p].op = "saveGym"
  /\ UNCHANGED <<db, now, inflight, gateway, scorer, useWebSocket>>
  /\ saving' = [saving EXCEPT ![p] = NotSaving]
  /\ IF saving[p].existing # NoSavedGym
     THEN IF saving[p].matchScore # saving[p].existing.matchScore
          THEN /\ savedGyms' = {IF r.id = saving[p].existing.id
                                THEN [r EXCEPT !.matchScore = saving[p].matchScore]
                                ELSE r : r \in savedGyms}
               /\ UNCHANGED nextSavedGymId
               /\ resp' = Resp("saveGym", 201, saving[p].existing.id, "updated")
          ELSE /\ UNCHANGED <<savedGyms, nextSavedGymId>>
               /\ resp' = Resp("saveGym", 201, saving[p].existing.id, "existing")
     ELSE /\ nextSavedGymId <= MaxSavedGymId
          /\ savedGyms' = savedGyms \cup
                            {[id |-> nextSavedGymId, userId |-> saving[p].userId,
                              gymId |-> saving[p].gymId,
                              matchScore |-> saving[p].matchScore, savedAt |-> now]}
          /\ nextSavedGymId' = nextSavedGymId + 1
          /\ resp' = Resp("saveGym", 201, nextSavedGymId, "created")

\* DELETE /api/saved-gyms/:gymId, run to completion: every row of the pair
\* goes; 404 when there was none
DeleteSavedGym(actor, gymId) ==
  /\ UNCHANGED <<db, now, inflight, gateway, scorer, nextSavedGymId, saving, useWebSocket>>
  /\ IF actor = Anonymous
     THEN /\ resp' = Resp("deleteSavedGym", 401, NoId, "none")
          /\ UNCHANGED savedGyms
     ELSE /\ savedGyms' = {r \in savedGyms : ~(r.userId = actor /\ r.gymId = gymId)}
          /\ resp' = IF savedGyms' = savedGyms
                     THEN Resp("deleteSavedGym", 404, NoId, "none")
                     ELSE Resp("deleteSavedGym", 204, gymId, "deleted")

MatchIds == 1..MaxMatchId

\* The requests of the match routes.  A malformed field makes a handler answer
\* before it reads the fields checked after it, so the malformed requests are
\* sampled: every well-formed request, and every malformed one to user 1.
PostUserMatchRequests ==
  {q \in Actors \X Users \X (UserIds \cup {Absent}) : q[1] = q[2] \/ q[3] = 1}

PutUserMatchRequests ==
  {q \in Actors \X MatchIds \X BodyStatuses : q[3] \in {"accepted", "rejected"} \/ q[1] = 1}

\* ------------------------------------------- the handlers, interleaved
\* Each handler awaits its lookup and then its write; other requests run in
\* between.  Begin* is the handler up to the answer of its lookup, End* is
\* its write and its response.
Slots == 1..MaxInflight

BeginPostUserMatch(p, actor, senderId, receiverId) ==
  /\ inflight[p] = Idle
  /\ UNCHANGED <<db, now, gateway, scorer, saved, useWebSocket>>
  /\ IF PostUserMatchGate(actor, senderId, receiverId) # 0
     THEN /\ resp' = Resp("requestMatch",
                          PostUserMatchGate(actor, senderId, receiverId), NoId, "none")
          /\ UNCHANGED inflight
     ELSE /\ \E existing \in getUserMatchByUsers(userMatches, senderId, receiverId) :
               inflight' = [inflight EXCEPT ![p] =
                              InFlight("requestMatch", senderId, receiverId, "none", existing)]
          /\ UNCHANGED resp

EndPostUserMatch(p) ==
  /\ inflight[p].op = "requestMatch"
  /\ UNCHANGED <<messages, nextMessageId, now, gateway, scorer, saved, useWebSocket>>
  /\ LET r == createUserMatch(userMatches, nextMatchId, inflight[p].snap,
                              inflight[p].a, inflight[p].b, now)
     IN /\ r.nid <= MaxMatchId + 1
        /\ userMatches' = r.rows
        /\ nextMatchId' = r.nid
        /\ resp' = Resp("requestMatch", 201, r.ret.id, r.branch)
  /\ inflight' = [inflight EXCEPT ![p] = Idle]

BeginPutUserMatch(p, actor, id, status) ==
  /\ inflight[p] = Idle
  /\ UNCHANGED <<db, now, gateway, scorer, saved, useWebSocket>>
  /\ LET gate == PutUserMatchGate(actor, status, getUserMatch(userMatches, id))
     IN IF gate # 0
        THEN /\ resp' = Resp("respondToMatch", gate, NoId, "none")
             /\ UNCHANGED inflight
        ELSE /\ inflight' = [inflight EXCEPT ![p] =
                               InFlight("respondToMatch", id, NoId, status,
                                        getUserMatch(userMatches, id))]
             /\ UNCHANGED resp

\* the UPDATE changes no row, and the body is empty, when the row is gone
EndPutUserMatch(p) ==
  /\ inflight[p].op = "respondToMatch"
  /\ UNCHANGED <<nextMatchId, messages, nextMessageId, now, gateway, scorer, saved, useWebSocket>>
  /\ userMatches' = updateUserMatchStatus(userMatches, inflight[p].a, inflight[p].arg, now)
  /\ resp' = Resp("respondToMatch", 200,
                  getUserMatch(userMatches, inflight[p].a).id, "updated")
  /\ inflight' = [inflight EXCEPT ![p] = Idle]

BeginDeleteUserMatch(p, actor, id) ==
  /\ inflight[p] = Idle
  /\ UNCHANGED <<db, now, gateway, scorer, saved, useWebSocket>>
  /\ LET gate == DeleteUserMatchGate(actor, getUserMatch(userMatches, id))
     IN IF gate # 0
        THEN /\ resp' = Resp("deleteMatch", gate, NoId, "none")
             /\ UNCHANGED inflight
        ELSE /\ inflight' = [inflight EXCEPT ![p] =
                               InFlight("deleteMatch", id, NoId, "none",
                                        getUserMatch(userMatches, id))]
             /\ UNCHANGED resp

EndDeleteUserMatch(p) ==
  /\ inflight[p].op = "deleteMatch"
  /\ UNCHANGED <<nextMatchId, messages, nextMessageId, now, gateway, scorer, saved, useWebSocket>>
  /\ userMatches' = deleteUserMatch(userMatches, inflight[p].a)
  /\ resp' = Resp("deleteMatch", DeleteUserMatchCode(userMatches, inflight[p].a),
                  inflight[p].a, "deleted")
  /\ inflight' = [inflight EXCEPT ![p] = Idle]

BeginPostMessage(p, actor, senderId, receiverId, content) ==
  /\ inflight[p] = Idle
  /\ UNCHANGED <<db, now, gateway, scorer, saved, useWebSocket>>
  /\ IF PostMessageGate(actor, senderId, receiverId, content) # 0
     THEN /\ resp' = Resp("sendMessage",
                          PostMessageGate(actor, senderId, receiverId, content),
                          NoId, "none")
          /\ UNCHANGED inflight
     ELSE \E match \in getUserMatchByUsers(userMatches, senderId, receiverId) :
            IF AcceptedGate(match) # 0
            THEN /\ resp' = Resp("sendMessage", AcceptedGate(match), NoId, "not_matched")
                 /\ UNCHANGED inflight
            ELSE /\ inflight' = [inflight EXCEPT ![p] =
                                   InFlight("sendMessage", senderId, receiverId,
                                            "none", match)]
                 /\ UNCHANGED resp

EndPostMessage(p) ==
  /\ inflight[p].op = "sendMessage"
  /\ UNCHANGED <<userMatches, nextMatchId, now, gateway, scorer, saved, useWebSocket>>
  /\ nextMessageId <= MaxMessageId
  /\ messages' = createMessage(messages, nextMessageId, inflight[p].a, inflight[p].b, now)
  /\ nextMessageId' = nextMessageId + 1
  /\ resp' = Resp("sendMessage", 201, nextMessageId, "created")
  /\ inflight' = [inflight EXCEPT ![p] = Idle]

\* a send_message event on connection c up to the answer of its match lookup;
\* the connection is kept in arg
BeginWsSendMessage(p, c, senderId, receiverId, content) ==
  /\ inflight[p] = Idle
  /\ sockets[c].readyState = "open"
  /\ UNCHANGED <<db, now, gateway, scorer, saved, useWebSocket>>
  /\ LET gate == WsSendGate(sockets[c].userId, senderId, receiverId, content)
     IN IF gate # "ok"
        THEN /\ resp' = RespFull("wsSend", 0, NoId, gate, <<>>, {<<c, "error", NoId>>})
             /\ UNCHANGED inflight
        ELSE \E match \in getUserMatchByUsers(userMatches, senderId, receiverId) :
               IF AcceptedGate(match) # 0
               THEN /\ resp' = RespFull("wsSend", 0, NoId, "not_matched", <<>>,
                                        {<<c, "error", NoId>>})
                    /\ UNCHANGED inflight
               ELSE /\ inflight' = [inflight EXCEPT ![p] =
                                      InFlight("wsSend", senderId, receiverId, c, match)]
                    /\ UNCHANGED resp

EndWsSendMessage(p) ==
  /\ inflight[p].op = "wsSend"
  /\ UNCHANGED <<userMatches, nextMatchId, now, gateway, scorer, saved, useWebSocket>>
  /\ nextMessageId <= MaxMessageId
  /\ messages' = createMessage(messages, nextMessageId, inflight[p].a, inflight[p].b, now)
  /\ nextMessageId' = nextMessageId + 1
  /\ resp' = RespFull("wsSend", 0, nextMessageId, "created", <<>>,
                      WsSentEvents(inflight[p].arg, inflight[p].b, nextMessageId))
  /\ inflight' = [inflight EXCEPT ![p] = Idle]

\* a read_messages event on connection c up to the await of markMessagesAsRead;
\* the connection is kept in arg
BeginWsReadMessages(p, c, senderId) ==
  /\ inflight[p] = Idle
  /\ sockets[c].readyState = "open"
  /\ UNCHANGED <<db, now, gateway, scorer, saved, useWebSocket>>
  /\ IF senderId = NoId
     THEN /\ resp' = RespFull("wsRead", 0, NoId, "invalid", <<>>, {<<c, "error", NoId>>})
          /\ UNCHANGED inflight
     ELSE /\ inflight' = [inflight EXCEPT ![p] =
                            InFlight("wsRead", sockets[c].userId, senderId, c, NoMatch)]
          /\ UNCHANGED resp

EndWsReadMessages(p) ==
  /\ inflight[p].op = "wsRead"
  /\ UNCHANGED <<userMatches, nextMatchId, nextMessageId, now, gateway, scorer, saved, useWebSocket>>
  /\ messages' = markMessagesAsRead(messages, inflight[p].a, inflight[p].b)
  /\ resp' = RespFull("wsRead", 0, inflight[p].b, "read", <<>>,
                      {<<inflight[p].arg, "messages_read", inflight[p].b>>})
  /\ inflight' = [inflight EXCEPT ![p] = Idle]

\* WsCatch with a catch block that only logs
WsCatchSilent(p) ==
  /\ inflight[p].op \in {"wsSend", "wsRead"}
  /\ UNCHANGED <<db, now, gateway, scorer, saved, useWebSocket>>
  /\ resp' = RespFull(inflight[p].op, 0, NoId, "failed", <<>>, {})
  /\ inflight' = [inflight EXCEPT ![p] = Idle]

\* the repository call a gateway handler awaits rejects: the catch block sends
\* an error event on the handler's connection, and nothing is written
WsCatch(p) ==
  /\ inflight[p].op \in {"wsSend", "wsRead"}
  /\ UNCHANGED <<db, now, gateway, scorer, saved, useWebSocket>>
  /\ resp' = RespFull(inflight[p].op, 0, NoId, "failed", <<>>,
                      {<<inflight[p].arg, "error", NoId>>})
  /\ inflight' = [inflight EXCEPT ![p] = Idle]

\* every request of the match routes
MatchNext ==
  \/ \E q \in PostUserMatchRequests : PostUserMatch(q[1], q[2], q[3])
  \/ \E q \in PutUserMatchRequests : PutUserMatch(q[1], q[2], q[3])
  \/ \E actor \in Actors, id \in MatchIds : DeleteUserMatch(actor, id)

\* the match requests of signed-in users, which make every table MatchNext makes
MatchTraffic ==
  \/ \E actor \in Users, r \in Users : PostUserMatch(actor, actor, r)
  \/ \E actor \in Users, id \in MatchIds, st \in {"accepted", "rejected"} :
       PutUserMatch(actor, id, st)
  \/ \E actor \in Users, id \in MatchIds : DeleteUserMatch(actor, id)

\* the message requests of signed-in users, to users and to an id that is none
MessageTraffic ==
  \/ \E actor \in Users, r \in UserIds : PostMessage(actor, actor, r, "hi")
  \/ \E actor \in Users, o \in UserIds : GetMessages(actor, o)
  \/ \E actor \in Users : GetUnreadCount(actor)

\* connections of users on the connections chans, and their events
GatewayTraffic(chans) ==
  \/ \E c \in chans, u \in Users : WsConnect(c, u)
  \/ \E c \in chans : WsDrop(c)
  \/ \E c \in chans : WsOnClose(c)
  \/ \E c \in chans, s \in Users, r \in UserIds : WsSendMessage(c, s, r, "hi")
  \/ \E c \in chans, s \in Users : WsReadMessages(c, s)

\* the match state machine over REST, each request run to completion
Next ==
  \/ Tick
  \/ MatchNext

Spec == Init /\ [][Next]_vars

\* the match requests of signed-in users, interleaved
MatchConc(users) ==
  \/ \E p \in Slots, actor \in users, r \in users : BeginPostUserMatch(p, actor, actor, r)
  \/ \E p \in Slots : EndPostUserMatch(p)
  \/ \E p \in Slots, actor \in users, id \in MatchIds, st \in {"accepted", "rejected"} :
       BeginPutUserMatch(p, actor, id, st)
  \/ \E p \in Slots : EndPutUserMatch(p)
  \/ \E p \in Slots, actor \in users, id \in MatchIds : BeginDeleteUserMatch(p, actor, id)
  \/ \E p \in Slots : EndDeleteUserMatch(p)

\* the sends of signed-in users, over REST and over the gateway, interleaved
MessageConc(users, chans) ==
  \/ \E p \in Slots, actor \in users, r \in users : BeginPostMessage(p, actor, actor, r, "hi")
  \/ \E p \in Slots : EndPostMessage(p)
  \/ \E c \in chans, u \in users : WsConnect(c, u)
  \/ \E c \in chans : WsDrop(c)
  \/ \E c \in chans : WsOnClose(c)
  \/ \E p \in Slots, c \in chans, s \in users, r \in users :
       BeginWsSendMessage(p, c, s, r, "hi")
  \/ \E p \in Slots : EndWsSendMessage(p)

NextConc == MatchConc(1..ConcUsers)

SpecConc == Init /\ [][NextConc]_vars

\* SpecConcMsg keeps user_matches to MsgMatchIds ids and the gateway to MsgChans
\* connections
NextConcMsg ==
  \/ MatchConc(1..ConcUsers) /\ nextMatchId' <= MsgMatchIds + 1
  \/ MessageConc(1..ConcUsers, 1..MsgChans)

SpecConcMsg == Init /\ [][NextConcMsg]_vars

\* SpecMsg keeps user_matches to MsgMatchIds ids and the gateway to MsgChans
\* connections
\* matches and messages over REST and over the gateway, each request and each
\* event run to completion
NextMsg ==
  \/ MatchTraffic /\ nextMatchId' <= MsgMatchIds + 1
  \/ MessageTraffic
  \/ GatewayTraffic(1..MsgChans)

SpecMsg == Init /\ [][NextMsg]_vars

\* events that fail the gateway's validation, sampled: a connection without a
\* user id, send_message with a field missing or empty, read_messages without
\* a sender, and an event of no known type
MalformedSends == {<<NoId, 1, "hi">>, <<1, NoId, "hi">>, <<1, 2, "">>, <<1, 2, "absent">>}

GatewayMalformed(chans) ==
  \/ \E c \in chans : WsConnect(c, NoId)
  \/ \E c \in chans, q \in MalformedSends : WsSendMessage(c, q[1], q[2], q[3])
  \/ \E c \in chans : WsReadMessages(c, NoId)
  \/ \E c \in chans : WsOtherEvent(c)

\* the gateway with every connection slot in use, for users 1..ConcUsers: their
\* matches over REST (one id), their conversations pulled over REST, and their
\* connections and events
NextGateway ==
  \/ /\ \/ \E actor \in 1..ConcUsers, r \in 1..ConcUsers : PostUserMatch(actor, actor, r)
        \/ \E actor \in 1..ConcUsers, id \in MatchIds, st \in {"accepted", "rejected"} :
             PutUserMatch(actor, id, st)
        \/ \E actor \in 1..ConcUsers, id \in MatchIds : DeleteUserMatch(actor, id)
     /\ nextMatchId' <= MsgMatchIds + 1
  \/ \E actor \in 1..ConcUsers, o \in 1..ConcUsers : GetMessages(actor, o)
  \/ \E c \in Chans, u \in 1..ConcUsers : WsConnect(c, u)
  \/ \E c \in Chans : WsDrop(c)
  \/ \E c \in Chans : WsOnClose(c)
  \/ \E c \in Chans, s \in 1..ConcUsers, r \in 1..ConcUsers : WsSendMessage(c, s, r, "hi")
  \/ \E c \in Chans, s \in 1..ConcUsers : WsReadMessages(c, s)
  \/ GatewayMalformed(Chans)

SpecGateway == Init /\ [][NextGateway]_vars

\* the gateway reached by any client: the upgrade request of a connection comes
\* from a signed-in user or from no session at all, and its URL names any user
NextAnyClient ==
  \/ /\ \/ \E actor \in 1..ConcUsers, r \in 1..ConcUsers : PostUserMatch(actor, actor, r)
        \/ \E actor \in 1..ConcUsers, id \in MatchIds, st \in {"accepted", "rejected"} :
             PutUserMatch(actor, id, st)
        \/ \E actor \in 1..ConcUsers, id \in MatchIds : DeleteUserMatch(actor, id)
     /\ nextMatchId' <= MsgMatchIds + 1
  \/ \E c \in Chans, client \in 0..ConcUsers, u \in 1..ConcUsers : WsConnectAs(c, client, u)
  \/ \E c \in Chans : WsDrop(c)
  \/ \E c \in Chans : WsOnClose(c)
  \/ \E c \in Chans, snd \in 1..ConcUsers, r \in 1..ConcUsers : WsSendMessage(c, snd, r, "hi")

SpecAnyClient == Init /\ [][NextAnyClient]_vars

\* the profiles and the gyms of the recommendation specifications: a goal that
\* is a key of goalToAmenity and one that is not; gyms without amenities, with
\* every amenity related to the goal, and with a label in lower case that is
\* part of two of them; a preference that contains both labels of such a gym
\* and one that shares a word with one of them
Goals == {<<"B", "u", "i", "l", "d", " ", "M", "u", "s", "c", "l", "e">>,
          <<"Y", "o", "g", "a">>}
Preferences == {<<"F", "r", "e", "e", " ", "W", "e", "i", "g", "h", "t", "s", " ", "T", "r", "a", "i", "n", "i", "n", "g">>,
                <<"m", "y", " ", "w", "e", "i", "g", "h", "t", "s">>}
GoalLists == UNION {[1..n -> Goals] : n \in 0..MaxGoals}
PreferenceLists == UNION {[1..n -> Preferences] : n \in 0..MaxPreferences}
FullGym ==
  <<<<"F", "r", "e", "e", " ", "W", "e", "i", "g", "h", "t", "s">>,
    <<"W", "e", "i", "g", "h", "t", " ", "T", "r", "a", "i", "n", "i", "n", "g">>,
    <<"P", "e", "r", "s", "o", "n", "a", "l", " ", "T", "r", "a", "i", "n", "i", "n", "g">>,
    <<"S", "a", "u", "n", "a">>>>
PartGym ==
  <<<<"F", "r", "e", "e", " ", "W", "e", "i", "g", "h", "t", "s">>,
    <<"t", "r", "a", "i", "n", "i", "n", "g">>>>

\* what every recommendation specification starts from: nothing has happened
\* in the other tables
InitRest ==
  /\ userMatches = {}
  /\ nextMatchId = 1
  /\ messages = {}
  /\ nextMessageId = 1
  /\ now = 0
  /\ resp = NoResp
  /\ inflight = [p \in 1..MaxInflight |-> Idle]
  /\ sockets = [c \in Chans |-> NoSocket]
  /\ connectedClients = [u \in WsIds |-> NoChan]
  /\ matches = NoMatches
  /\ InitSaved
  /\ InitHook

\* any goals and any gyms table; the scorer in use reads no preference
InitScore ==
  /\ InitRest
  /\ fitnessGoals \in {NullColumn} \cup {Column(g) : g \in GoalLists}
  /\ gymPreferences = Column(<<>>)
  /\ gymAmenities \in [1..NumGyms -> {NullColumn, Column(<<>>), Column(FullGym)}]

\* recommendation requests of user 1, of no session, and of a user since deleted
NextScore == \E actor \in {Anonymous, 1, GhostUser} : GetMatches(actor)

SpecScore == InitScore /\ [][NextScore]_vars

\* any goals, any preferences and any gyms table
InitScoreOnce ==
  /\ InitRest
  /\ fitnessGoals \in {NullColumn} \cup {Column(g) : g \in GoalLists}
  /\ gymPreferences \in {NullColumn} \cup {Column(q) : q \in PreferenceLists}
  /\ gymAmenities \in [1..NumGyms ->
                         {NullColumn, Column(<<>>), Column(FullGym), Column(PartGym)}]

\* one recommendation request, answered by the scorer of either storage; the
\* scorer in use, which reads no preference, is asked for the profiles without
NextScoreOnce ==
  \/ /\ matches = NoMatches /\ gymPreferences = Column(<<>>)
     /\ \E actor \in {Anonymous, 1, GhostUser} : GetMatches(actor)
  \/ matches = NoMatches /\ \E userId \in {1, GhostUser} : MemGetMatches(userId)

SpecScoreOnce == InitScoreOnce /\ [][NextScoreOnce]_vars

\* a gym whose one amenity fits no related amenity of the goal that is no key
\* of goalToAmenity, while it shares a word with a preference
WeightsGym == <<<<"F", "r", "e", "e", " ", "W", "e", "i", "g", "h", "t", "s">>>>

\* any goals, any preferences, and gyms of which the goals of a profile may fit
\* all, some or none
InitScoreMem ==
  /\ InitRest
  /\ fitnessGoals \in {NullColumn} \cup {Column(g) : g \in GoalLists}
  /\ gymPreferences \in {NullColumn} \cup {Column(q) : q \in PreferenceLists}
  /\ gymAmenities \in [1..NumGyms -> {Column(<<>>), Column(PartGym), Column(WeightsGym)}]

\* one call of the scorer of MemStorage
NextScoreMem == matches = NoMatches /\ \E userId \in {1, GhostUser} : MemGetMatches(userId)

SpecScoreMem == InitScoreMem /\ [][NextScoreMem]_vars

\* user 1 has an accepted match with user 2 and one with user 3; no message yet
InitConv ==
  /\ userMatches = {[NewUserMatch(1, 1, 2, 0) EXCEPT !.status = "accepted"],
                    [NewUserMatch(2, 3, 1, 0) EXCEPT !.status = "accepted"]}
  /\ nextMatchId = 3
  /\ messages = {}
  /\ nextMessageId = 1
  /\ now = 0
  /\ resp = NoResp
  /\ inflight = [p \in 1..MaxInflight |-> Idle]
  /\ sockets = [c \in Chans |-> NoSocket]
  /\ connectedClients = [u \in WsIds |-> NoChan]
  /\ fitnessGoals = Column(<<>>)
  /\ gymPreferences = Column(<<>>)
  /\ gymAmenities = <<>>
  /\ matches = NoMatches
  /\ InitSaved
  /\ InitHook

\* conversations: the sends of the users over REST, interleaved at the await
\* between the match lookup and the insert, and the conversation and unread
\* count requests between them
NextConv ==
  \/ Tick
  \/ \E p \in Slots, actor \in Users, r \in Users : BeginPostMessage(p, actor, actor, r, "hi")
  \/ \E p \in Slots : EndPostMessage(p)
  \/ \E actor \in Actors, o \in UserIds : GetMessages(actor, o)
  \/ \E actor \in Users : GetUnreadCount(actor)

SpecConv == InitConv /\ [][NextConv]_vars

\* the two ways messages get read: the conversation request, and read_messages
\* events on MsgChans connections; the sends run to completion
NextRead ==
  \/ Tick
  \/ \E actor \in Users, r \in Users : PostMessage(actor, actor, r, "hi")
  \/ \E actor \in Users, o \in Users : GetMessages(actor, o)
  \/ \E c \in 1..MsgChans, u \in Users : WsConnect(c, u)
  \/ \E c \in 1..MsgChans, s \in WsIds : WsReadMessages(c, s)

SpecRead == InitConv /\ [][NextRead]_vars

\* the gateway's handlers with their awaits, for users 1..ConcUsers on MsgChans
\* connections: an event is taken up when the messages serial has room for it,
\* connections open and stop being open at any moment, and the repository call
\* a handler awaits completes or rejects
NextLive ==
  \/ \E c \in 1..MsgChans, u \in 1..ConcUsers : WsConnect(c, u)
  \/ \E c \in 1..MsgChans : WsDrop(c)
  \/ \E p \in Slots, c \in 1..MsgChans, s \in 0..ConcUsers, r \in 1..NumUsers :
       /\ nextMessageId + Cardinality({q \in Slots : inflight[q].op = "wsSend"})
            <= MaxMessageId
       /\ BeginWsSendMessage(p, c, s, r, "hi")
  \/ \E p \in Slots : EndWsSendMessage(p)
  \/ \E p \in Slots, c \in 1..MsgChans, s \in 0..ConcUsers : BeginWsReadMessages(p, c, s)
  \/ \E p \in Slots : EndWsReadMessages(p)
  \/ \E p \in Slots : WsCatch(p)

\* every repository call completes or fails: a handler that awaits one goes on
Completes ==
  \A p \in Slots : WF_vars(EndWsSendMessage(p) \/ EndWsReadMessages(p) \/ WsCatch(p))

SpecLive == InitConv /\ [][NextLive]_vars /\ Completes

\* ------------------------------------------- the client's useWebSocket hook
\* One instance of the hook for a signed-in user.  h is the hook: socketRef
\* (0 is null), the state isConnected and isConnecting as last set, the
\* readyState of each WebSocket it created, the reconnect timers pending, and the
\* state the last render saw.  A callback sees the state of the render that
\* made it and the ref as it is now.

\* socket.close(): a socket that is connecting or open starts closing
close(readyState) ==
  IF readyState \in {"connecting", "open"} THEN "closing" ELSE readyState

\* the socket `new WebSocket(wsUrl)` makes
NewSocket(h) == CHOOSE s \in 1..MaxClientSockets :
                  /\ h.sockets[s] = "none"
                  /\ \A t \in 1..(s - 1) : h.sockets[t] # "none"

\* connect as made by a render that saw isConnecting and isConnected
connect(h, isConnecting, isConnected) ==
  IF isConnecting \/ isConnected \/ h.socketRef # 0 THEN h
  ELSE [h EXCEPT !.isConnecting = TRUE,
                 !.sockets[NewSocket(h)] = "connecting",
                 !.socketRef = NewSocket(h)]

\* whether a call of connect would make a socket
Connects(h, isConnecting, isConnected) ==
  ~isConnecting /\ ~isConnected /\ h.socketRef = 0

disconnect(h) ==
  IF h.socketRef # 0
  THEN [h EXCEPT !.sockets[h.socketRef] = close(h.sockets[h.socketRef]),
                 !.socketRef = 0,
                 !.isConnected = FALSE]
  ELSE h

\* the state was set to something the last render did not see, or the
\* component has not rendered yet
RenderPending(h) ==
  \/ ~h.rendered.mounted
  \/ h.rendered.isConnected # h.isConnected
  \/ h.rendered.isConnecting # h.isConnecting

\* a render and its useEffect: the cleanup of the effect before (disconnect),
\* then the effect, which connects when the render saw neither flag and the ref
\* is null
HookRender ==
  /\ RenderPending(useWebSocket)
  /\ LET isConnected == useWebSocket.isConnected
         isConnecting == useWebSocket.isConnecting
         cleaned == IF useWebSocket.rendered.mounted THEN disconnect(useWebSocket)
                    ELSE useWebSocket
         effect == IF ~isConnected /\ ~isConnecting /\ cleaned.socketRef = 0
                   THEN connect(cleaned, isConnecting, isConnected)
                   ELSE cleaned
     IN /\ (~isConnected /\ ~isConnecting /\ Connects(cleaned, isConnecting, isConnected))
           => \E s \in 1..MaxClientSockets : cleaned.sockets[s] = "none"
        /\ useWebSocket' = [effect EXCEPT !.rendered = [mounted |-> TRUE,
                                                        isConnected |-> isConnected,
                                                        isConnecting |-> isConnecting]]
  /\ UNCHANGED <<db, now, resp, inflight, gateway, scorer, saved>>

\* socket.onopen of socket s
HookOnOpen(s) ==
  /\ ~RenderPending(useWebSocket)
  /\ useWebSocket.sockets[s] = "connecting"
  /\ useWebSocket' = [useWebSocket EXCEPT !.sockets[s] = "open",
                                          !.isConnected = TRUE,
                                          !.isConnecting = FALSE]
  /\ UNCHANGED <<db, now, resp, inflight, gateway, scorer, saved>>

\* socket s is closed (its close() has completed, the server closed it, or the
\* network failed) and socket.onclose runs: the flags and the ref are reset
\* and the reconnect timer is set
HookOnClose(s) ==
  /\ ~RenderPending(useWebSocket)
  /\ useWebSocket.sockets[s] \in {"connecting", "open", "closing"}
  /\ useWebSocket.timers < MaxTimers
  /\ useWebSocket' = [useWebSocket EXCEPT !.sockets[s] = "closed",
                                          !.isConnected = FALSE,
                                          !.isConnecting = FALSE,
                                          !.socketRef = 0,
                                          !.timers = @ + 1]
  /\ UNCHANGED <<db, now, resp, inflight, gateway, scorer, saved>>

\* a reconnect timer fires: connect as made by the render in which the closed
\* socket was created, which saw neither flag
HookTimer ==
  /\ ~RenderPending(useWebSocket)
  /\ useWebSocket.timers > 0
  /\ Connects(useWebSocket, FALSE, FALSE)
     => \E s \in 1..MaxClientSockets : useWebSocket.sockets[s] = "none"
  /\ useWebSocket' = [connect(useWebSocket, FALSE, FALSE) EXCEPT
                        !.timers = useWebSocket.timers - 1]
  /\ UNCHANGED <<db, now, resp, inflight, gateway, scorer, saved>>

NextHook ==
  \/ HookRender
  \/ \E s \in 1..MaxClientSockets : HookOnOpen(s)
  \/ \E s \in 1..MaxClientSockets : HookOnClose(s)
  \/ HookTimer

SpecHook == Init /\ [][NextHook]_vars

\* the match scores a client sends with a gym it saves
SavedScores == {80, 90}

\* NumGyms gyms; nothing else has happened
InitSave ==
  /\ InitRest
  /\ fitnessGoals = Column(<<>>)
  /\ gymPreferences = Column(<<>>)
  /\ gymAmenities = [i \in 1..NumGyms |-> Column(<<>>)]

\* saved gyms: the saves of users 1..ConcUsers and of no session, interleaved
\* at the await between saveGym's lookup and its write, and the removals
NextSave ==
  \/ \E p \in Slots, actor \in 0..ConcUsers, gymId \in 0..(NumGyms + 1),
        score \in SavedScores : BeginSaveGym(p, actor, gymId, score)
  \/ \E p \in Slots : EndSaveGym(p)
  \/ \E actor \in 0..ConcUsers, gymId \in 1..NumGyms : DeleteSavedGym(actor, gymId)

SpecSave == InitSave /\ [][NextSave]_vars

\* ------------------------------------------------------------ properties
\* the rows of the unordered pair {a, b}
PairRows(rows, a, b) == {m \in rows : {m.senderId, m.receiverId} = {a, b}}

Finished == {"accepted", "rejected"}

\* C1: when the last request was requestMatch(A,B) that created a row, a
\* requestMatch(B,A) that comes next answers 201 and leaves exactly one row for
\* {A,B}, with status accepted.
C1_ReciprocalRequestAccepts ==
  [][\A m \in userMatches :
       ( /\ resp.op = "requestMatch" /\ resp.branch = "created" /\ resp.ret = m.id
         /\ resp'.op = "requestMatch"
         /\ PostUserMatch(m.receiverId, m.receiverId, m.senderId) )
       => /\ resp'.code = 201
          /\ Cardinality(PairRows(userMatches', m.senderId, m.receiverId)) = 1
          /\ \A n \in PairRows(userMatches', m.senderId, m.receiverId) :
               n.id = m.id /\ n.status = "accepted"]_vars

\* a reciprocal request of two different users has just accepted their one row
C1_Witness ==
  /\ resp.op = "requestMatch" /\ resp.branch = "accepted"
  /\ \E m \in userMatches :
       /\ m.id = resp.ret /\ m.status = "accepted" /\ m.senderId # m.receiverId
       /\ PairRows(userMatches, m.senderId, m.receiverId) = {m}

\* C2: when the last request was requestMatch(A,B), A # B, that created a row,
\* a second requestMatch(A,B) that comes next changes no row, leaves exactly one
\* row for {A,B}, still pending, and answers that row.  (With A = B the second
\* call is itself the reciprocal call by B, which the claim excludes.)
C2_SameDirectionIdempotent ==
  [][\A m \in userMatches :
       ( /\ resp.op = "requestMatch" /\ resp.branch = "created" /\ resp.ret = m.id
         /\ m.senderId # m.receiverId
         /\ resp'.op = "requestMatch"
         /\ PostUserMatch(m.senderId, m.senderId, m.receiverId) )
       => /\ userMatches' = userMatches
          /\ PairRows(userMatches', m.senderId, m.receiverId) = {m}
          /\ m.status = "pending"
          /\ resp'.code = 201 /\ resp'.ret = m.id]_vars

\* a repeated request has just answered the pending row of its own direction
C2_Witness ==
  /\ resp.op = "requestMatch" /\ resp.branch = "existing"
  /\ \E m \in userMatches :
       /\ m.id = resp.ret /\ m.status = "pending" /\ m.senderId # m.receiverId
       /\ PairRows(userMatches, m.senderId, m.receiverId) = {m}

\* C3: with every request run to completion, no unordered pair of users has
\* more than one row, counting both directions.
C3_OneRowPerPair ==
  \A a, b \in Users : Cardinality(PairRows(userMatches, a, b)) <= 1

\* a request met the row of its pair, another pair has a row too
C3_Witness ==
  /\ resp.op = "requestMatch" /\ resp.branch \in {"existing", "accepted"}
  /\ Cardinality(userMatches) = 2

\* C4: with the lookups and the writes of concurrent requests interleaved, two
\* different users never have a row in each direction.
C4_NoRowInEachDirection ==
  \A m, n \in userMatches :
    (m.senderId = n.receiverId /\ m.receiverId = n.senderId /\ m.senderId # m.receiverId)
    => m.id = n.id

\* C5: respondToMatch on an existing row by a user who is not its receiver
\* answers 403 and changes no row (so neither status nor updatedAt).
C5_OnlyReceiverResponds ==
  [][resp'.op = "respondToMatch" =>
       \/ resp'.code = 403 /\ userMatches' = userMatches
       \/ ~ \E actor \in Users, id \in 1..MaxMatchId, st \in {"accepted", "rejected"} :
              /\ getUserMatch(userMatches, id) # NoMatch
              /\ getUserMatch(userMatches, id).receiverId # actor
              /\ PutUserMatch(actor, id, st)]_vars

\* a response was refused with 403 while the row it named exists
C5_Witness ==
  /\ resp.op = "respondToMatch" /\ resp.code = 403
  /\ userMatches # {}

\* C9: no step takes a row that is accepted or rejected back to pending.
C9_NeverBackToPending ==
  [][\A m \in userMatches : \A n \in userMatches' :
       (m.id = n.id /\ m.status \in Finished) => n.status # "pending"]_vars

\* a request or a response has just acted on a row that was already finished
C9_Witness ==
  \E m \in userMatches :
    /\ m.status \in Finished
    /\ m.id = resp.ret
    /\ \/ resp.op = "requestMatch" /\ resp.branch = "existing"
       \/ resp.op = "respondToMatch" /\ resp.branch = "updated" /\ m.createdAt < m.updatedAt

\* C10: a row of two different users that is accepted or rejected keeps its
\* status as long as it exists.
C10_FinishedIsTerminal ==
  [][\A m \in userMatches : \A n \in userMatches' :
       (m.id = n.id /\ m.status \in Finished /\ m.senderId # m.receiverId)
       => n.status = m.status]_vars

\* no row of the pair {a, b} is accepted
NoAcceptedMatch(rows, a, b) == \A m \in PairRows(rows, a, b) : m.status # "accepted"

\* the unread messages addressed to u
UnreadOf(rows, u) == {m \in rows : m.receiverId = u /\ ~m.read}

\* C6: a send by user a to b while no row of {a,b} is accepted creates no
\* message: over REST (b an existing user) it answers 403, on the WebSocket of
\* a it answers one error event on that connection.
C6_SendNeedsAcceptedMatch ==
  [][ /\ resp'.op = "sendMessage" =>
           \/ /\ resp'.code = 403
              /\ messages' = messages /\ nextMessageId' = nextMessageId
           \/ ~ \E a \in Users, b \in Users, ct \in {"", "hi"} :
                  /\ NoAcceptedMatch(userMatches, a, b)
                  /\ PostMessage(a, a, b, ct)
      /\ resp'.op = "wsSend" =>
           \A c \in Chans, b \in UserIds :
             ( /\ sockets[c].readyState = "open"
               /\ NoAcceptedMatch(userMatches, sockets[c].userId, b)
               /\ WsSendMessage(c, sockets[c].userId, b, "hi") )
             => /\ resp'.events = {<<c, "error", NoId>>}
                /\ resp'.branch = "not_matched"
                /\ messages' = messages /\ nextMessageId' = nextMessageId ]_vars

\* a send was refused for want of an accepted match while the pair's row is
\* pending or rejected
C6_Witness ==
  /\ resp.branch = "not_matched"
  /\ resp.op \in {"sendMessage", "wsSend"}
  /\ \E m \in userMatches : m.status \in {"pending", "rejected"}
  /\ messages # {}

\* C7: whenever a message between two different users is inserted, a row of
\* its sender and receiver is accepted at that moment.
C7_AcceptedAtInsert ==
  [][\A m \in messages' \ messages :
       m.senderId # m.receiverId
       => \E row \in PairRows(userMatches, m.senderId, m.receiverId) :
            row.status = "accepted"]_vars

\* C8: the unread count answered is the number of unread messages addressed to
\* the caller; a send from a to b that succeeds (REST or WebSocket) adds exactly
\* one message, unread and addressed to b; after getConversation(b, a) succeeds,
\* every message from a to b that existed before is read.
C8_UnreadCount ==
  [][ /\ resp'.op = "unreadCount" =>
           \A u \in Users :
             GetUnreadCount(u) => resp'.ret = Cardinality(UnreadOf(messages, u))
      /\ (resp'.op = "sendMessage" /\ resp'.code = 201) =>
           \A a \in Users, b \in Users :
             PostMessage(a, a, b, "hi")
             => /\ Cardinality(UnreadOf(messages', b))
                     = Cardinality(UnreadOf(messages, b)) + 1
                /\ \A u \in Users \ {b} : UnreadOf(messages', u) = UnreadOf(messages, u)
      /\ (resp'.op = "wsSend" /\ resp'.branch = "created") =>
           \A c \in Chans, b \in Users :
             ( /\ sockets[c].readyState = "open"
               /\ WsSendMessage(c, sockets[c].userId, b, "hi") )
             => /\ Cardinality(UnreadOf(messages', b))
                     = Cardinality(UnreadOf(messages, b)) + 1
                /\ \A u \in Users \ {b} : UnreadOf(messages', u) = UnreadOf(messages, u)
      /\ (resp'.op = "getConversation" /\ resp'.code = 200) =>
           \A b \in Users, a \in Users :
             GetMessages(b, a)
             => /\ \A m \in messages :
                     (m.senderId = a /\ m.receiverId = b)
                     => \E n \in messages' : n.id = m.id /\ n.read
                /\ \A m \in messages' : (m.senderId = a /\ m.receiverId = b) => m.read
    ]_vars

\* getConversation answered messages and left their receiver with none unread
C8_Witness ==
  /\ resp.op = "getConversation" /\ resp.code = 200 /\ Len(resp.list) >= 1
  /\ \E m \in messages :
       /\ m.read /\ m.senderId # m.receiverId
       /\ UnreadOf(messages, m.receiverId) = {}

\* C11: deleteMatch on an existing row by a user who is neither its sender nor
\* its receiver answers 403 and leaves every row as it was; and a row goes away
\* only in a deleteMatch that one of its two participants made.
C11_OnlyParticipantsDelete ==
  [][ /\ resp'.op = "deleteMatch" =>
           \/ resp'.code = 403 /\ userMatches' = userMatches
           \/ ~ \E actor \in Users, id \in MatchIds :
                  /\ getUserMatch(userMatches, id) # NoMatch
                  /\ getUserMatch(userMatches, id).senderId # actor
                  /\ getUserMatch(userMatches, id).receiverId # actor
                  /\ DeleteUserMatch(actor, id)
      /\ \A m \in userMatches :
           (\A n \in userMatches' : n.id # m.id)
           => /\ resp'.op = "deleteMatch" /\ resp'.code = 204
              /\ \E actor \in {m.senderId, m.receiverId} : DeleteUserMatch(actor, m.id)
    ]_vars

\* a third user's deleteMatch was refused and the row of the other two, already
\* accepted, is still there
C11_Witness ==
  /\ resp.op = "deleteMatch" /\ resp.code = 403
  /\ \E m \in userMatches :
       /\ m.status = "accepted" /\ m.senderId # m.receiverId
       /\ Users \ {m.senderId, m.receiverId} # {}

\* C12: a send_message event on an open connection c that has a field missing,
\* claims a sender other than the connection's user, or names a pair with no
\* accepted match, answers exactly one event, an error on c; it creates no
\* message and leaves every connection and the registry as they were.
C12_RefusedSendKeepsChannel ==
  [][resp'.op = "wsSend" =>
       \A c \in Chans :
         \/ /\ resp'.events = {<<c, "error", NoId>>}
            /\ messages' = messages /\ nextMessageId' = nextMessageId
            /\ sockets' = sockets /\ connectedClients' = connectedClients
            /\ sockets'[c].readyState = "open"
         \/ sockets[c].readyState # "open"
         \/ ~ \E snd \in 0..ConcUsers, rcv \in 0..ConcUsers, ct \in Contents :
                /\ \/ snd = NoId \/ rcv = NoId \/ ct \in {"absent", ""}
                   \/ snd # sockets[c].userId
                   \/ NoAcceptedMatch(userMatches, snd, rcv)
                /\ WsSendMessage(c, snd, rcv, ct)]_vars

\* a send in another user's name was refused on a connection that is still open
\* and registered, while the two users have an accepted match
C12_Witness ==
  /\ resp.op = "wsSend" /\ resp.branch = "not_self"
  /\ \E c \in Chans :
       /\ resp.events = {<<c, "error", NoId>>}
       /\ sockets[c].readyState = "open"
       /\ connectedClients[sockets[c].userId] = c
  /\ \E m \in userMatches : m.status = "accepted" /\ m.senderId # m.receiverId

\* the connections that are open for user u
OpenChansOf(u) == {c \in Chans : sockets[c].readyState = "open" /\ sockets[c].userId = u}

\* C13: whenever a send_message event between two different users succeeds, an
\* open connection of the sender gets message_sent for the new message, and if
\* the receiver has an open connection at that moment, an open connection of the
\* receiver gets new_message for it.
C13_PushToOpenReceiver ==
  [][(resp'.op = "wsSend" /\ resp'.branch = "created") =>
       \A m \in messages' \ messages :
         m.senderId # m.receiverId
         => /\ \E c \in OpenChansOf(m.senderId) : <<c, "message_sent", m.id>> \in resp'.events
            /\ OpenChansOf(m.receiverId) # {}
               => \E c \in OpenChansOf(m.receiverId) :
                    <<c, "new_message", m.id>> \in resp'.events]_vars

\* C14: when a send_message event succeeds while the receiver has no open
\* connection, the only event is the sender's message_sent and the new message
\* is stored unread; no step removes a message; and a getConversation(b, a) that
\* succeeds answers every message a sent to b.
C14_OfflineReceiverPulls ==
  [][ /\ (resp'.op = "wsSend" /\ resp'.branch = "created") =>
           \A m \in messages' \ messages :
             OpenChansOf(m.receiverId) = {}
             => /\ \A e \in resp'.events : e[2] = "message_sent" /\ e[3] = m.id
                /\ m.read = FALSE
      /\ \A m \in messages : \E n \in messages' :
           n.id = m.id /\ n.senderId = m.senderId /\ n.receiverId = m.receiverId
      /\ (resp'.op = "getConversation" /\ resp'.code = 200) =>
           \A b \in 1..ConcUsers, a \in 1..ConcUsers :
             GetMessages(b, a)
             => \A m \in messages :
                  (m.senderId = a /\ m.receiverId = b)
                  => \E i \in DOMAIN resp'.list : resp'.list[i] = m.id
    ]_vars

\* a send has just succeeded with no event but the sender's confirmation: its
\* receiver, another user, has no open connection and the message is unread
C14_Witness ==
  /\ resp.op = "wsSend" /\ resp.branch = "created"
  /\ \E c \in Chans : resp.events = {<<c, "message_sent", resp.ret>>}
  /\ \E m \in messages :
       /\ m.id = resp.ret /\ ~m.read /\ m.senderId # m.receiverId
       /\ OpenChansOf(m.receiverId) = {}

\* C15: after every step the registry entry of each user id is no connection or
\* one connection whose user is that id, and id 0 has no entry; a connect for
\* user u on connection c leaves the entry of u equal to c, whatever it was, and
\* the other entries as they were; a connect without a user id opens no
\* connection and changes no entry.
C15_RegistryOnePerUser ==
  [][ /\ connectedClients'[NoId] = NoChan
      /\ \A u \in WsIds :
           \/ connectedClients'[u] = NoChan
           \/ /\ connectedClients'[u] \in Chans
              /\ sockets'[connectedClients'[u]].userId = u
      /\ resp'.op = "connect" =>
           \A c \in Chans, u \in 0..ConcUsers :
             WsConnect(c, u)
             => IF u = NoId
                THEN /\ sockets'[c].readyState # "open"
                     /\ connectedClients' = connectedClients
                ELSE /\ connectedClients'[u] = c
                     /\ sockets'[c].readyState = "open"
                     /\ \A v \in WsIds \ {u} : connectedClients'[v] = connectedClients[v]
    ]_vars

\* a second connection of a user has just taken the registry entry while the
\* user's earlier connection is still open
C15_Witness ==
  /\ resp.op = "connect" /\ resp.branch = "registered"
  /\ \E u \in Users :
       /\ connectedClients[u] = resp.ret
       /\ \E c \in OpenChansOf(u) : c # resp.ret

\* C16: whenever a step marks a message read, a row of the message's receiver
\* and sender is accepted at that moment.
C16_MarkReadNeedsAcceptedMatch ==
  [][\A m \in messages : \A n \in messages' :
       (n.id = m.id /\ ~m.read /\ n.read /\ m.senderId # m.receiverId)
       => \E row \in PairRows(userMatches, m.senderId, m.receiverId) :
            row.status = "accepted"]_vars

\* C17: a message created by a send_message event has as senderId the user who
\* opened the connection the event came on, and a connect changes the registry
\* entry of a user only to a connection which that user opened.
C17_NoImpersonation ==
  [][ /\ (resp'.op = "wsSend" /\ resp'.branch = "created") =>
           \A m \in messages' \ messages :
             \E c \in Chans : /\ <<c, "message_sent", m.id>> \in resp'.events
                              /\ sockets[c].client = m.senderId
      /\ resp'.op = "connect" =>
           \A u \in WsIds :
             (connectedClients'[u] # connectedClients[u])
             => sockets'[connectedClients'[u]].client = u
    ]_vars

\* the profile has neither a fitness goal nor a gym preference
EmptyProfile ==
  /\ fitnessGoals.null \/ fitnessGoals.items = <<>>
  /\ gymPreferences.null \/ gymPreferences.items = <<>>

\* C18: every score that the recommendation request (the scorer of the storage
\* in use) attaches to a gym for a profile without goals and without
\* preferences is 70.
C18_EmptyProfileScores70 ==
  (matches.code = 200 /\ matches.storage = "database" /\ EmptyProfile)
  => \A i \in DOMAIN matches.list : matches.list[i].matchScore = 70

\* C19: every score that a scorer attaches to a gym, that of the storage in use
\* and that of MemStorage, is in 0..100.
C19_ScoreInRange ==
  \A i \in DOMAIN matches.list : matches.list[i].matchScore \in 0..ScoreCap

\* MemStorage scored a gym 100 for which the goal bonus, the preference bonus
\* and the factor adjustment are all at their caps, 125 before the cap
C19_Witness ==
  /\ matches.code = 200 /\ matches.storage = "memory"
  /\ \E i \in DOMAIN matches.list :
       /\ matches.list[i].matchScore = ScoreCap
       /\ GoalBonus(fitnessGoals, gymAmenities[matches.list[i].id]) = GoalBonusCap
       /\ PreferenceBonus(gymPreferences, gymAmenities[matches.list[i].id]) = PrefBonusCap
       /\ LET raw == MemRawScore(fitnessGoals, gymPreferences,
                                 gymAmenities[matches.list[i].id])
          IN raw.num = (MemBaseScore + GoalBonusCap + PrefBonusCap + FactorWeight) * raw.den

\* C20: a recommendation request of the user who made the last one, for the
\* same profile and the same gyms, answers the same gyms with the same scores in
\* the same order.
C20_ScoringDeterministic ==
  [][(matches.code = 200 /\ matches'.code = 200 /\ matches'.userId = matches.userId
      /\ matches.storage = "database" /\ matches'.storage = "database"
      /\ fitnessGoals' = fitnessGoals /\ gymPreferences' = gymPreferences
      /\ gymAmenities' = gymAmenities)
     => matches'.list = matches.list]_vars

\* C21: no two rows of saved_gyms have the same user and the same gym.
C21_OneSavedGymPerPair ==
  \A r1, r2 \in savedGyms :
    (r1.userId = r2.userId /\ r1.gymId = r2.gymId) => r1.id = r2.id

\* C22: whenever a row's status changes, the step is respondToMatch by the
\* row's receiver on that row, or requestMatch by the row's receiver toward the
\* row's sender; so no request of the sender alone or of a third user changes it.
C22_StatusChangedByReceiver ==
  [][ /\ \A m \in userMatches : \A n \in userMatches' :
         (m.id = n.id /\ m.status # n.status)
         => \/ /\ resp'.op = "respondToMatch"
               /\ PutUserMatch(m.receiverId, m.id, n.status)
            \/ /\ resp'.op = "requestMatch"
               /\ m.status = "pending"
               /\ PostUserMatch(m.receiverId, m.receiverId, m.senderId)
      /\ \A m \in userMatches : \A n \in userMatches' :
         (m.id = n.id /\ m.status # n.status)
         => ~ \E actor \in Actors \ {m.receiverId} :
                \/ \E q \in PostUserMatchRequests :
                     q[1] = actor /\ PostUserMatch(q[1], q[2], q[3])
                \/ \E q \in PutUserMatchRequests :
                     q[1] = actor /\ PutUserMatch(q[1], q[2], q[3])
                \/ \E id \in MatchIds : DeleteUserMatch(actor, id)]_vars

\* the receiver has just rejected one row by respondToMatch while another row
\* stands accepted
C22_Witness ==
  /\ resp.op = "respondToMatch" /\ resp.branch = "updated"
  /\ \E m, n \in userMatches :
       /\ m.id = resp.ret /\ m.status = "rejected" /\ m.senderId # m.receiverId
       /\ n.status = "accepted" /\ n.senderId # n.receiverId

\* C23: requestMatch between the two users of a row that is accepted or
\* rejected, in the row's direction or the other, changes no row (so neither
\* status, sender, receiver nor updatedAt), creates none, and answers that row.
C23_FinishedRowUntouched ==
  [][resp'.op = "requestMatch" =>
       \A m \in userMatches :
         m.status \in Finished =>
           /\ PostUserMatch(m.senderId, m.senderId, m.receiverId)
              => /\ userMatches' = userMatches /\ nextMatchId' = nextMatchId
                 /\ resp'.code = 201 /\ resp'.ret = m.id
           /\ PostUserMatch(m.receiverId, m.receiverId, m.senderId)
              => /\ userMatches' = userMatches /\ nextMatchId' = nextMatchId
                 /\ resp'.code = 201 /\ resp'.ret = m.id]_vars

\* a request has just answered the finished row of its pair, the only row
\* there has ever been
C23_Witness ==
  /\ resp.op = "requestMatch" /\ resp.branch = "existing"
  /\ nextMatchId = 2
  /\ \E m \in userMatches :
       /\ userMatches = {m} /\ m.id = resp.ret
       /\ m.status \in Finished /\ m.senderId # m.receiverId

\* the reference formula of C24: the goal dimension counts in totalFactors only
\* when more than half of the goals match
ReferenceTotalFactors(goals, preferences, amenities) ==
  (IF GoalDimension(goals, amenities)
      /\ 2 * matchCount(goals.items, amenities.items) > Len(goals.items)
   THEN 1 ELSE 0)
  + (IF PreferenceDimension(preferences, amenities) THEN 1 ELSE 0)

ReferenceScore(goals, preferences, amenities) ==
  LET mf == MatchingFactors(goals, preferences, amenities)
      tf == ReferenceTotalFactors(goals, preferences, amenities)
      flat == 70 + GoalBonus(goals, amenities) + PreferenceBonus(preferences, amenities)
  IN IF tf > 0
     THEN Min(100, Round(flat * mf.den * tf + 20 * mf.num, mf.den * tf))
     ELSE Min(100, flat)

\* C24: every score MemStorage.getMatchesForUser attaches to a gym is the one
\* the reference formula gives, in which the goal dimension counts in
\* totalFactors only when more than half of the goals match.
C24_ScoreIsReferenceFormula ==
  (matches.code = 200 /\ matches.storage = "memory")
  => \A i \in DOMAIN matches.list :
       matches.list[i].matchScore =
         ReferenceScore(fitnessGoals, gymPreferences, gymAmenities[matches.list[i].id])

\* C25: a conversation request of user a for user b that succeeds answers
\* every message from a to b and from b to a, each once, no other message, in
\* ascending createdAt, whatever sends came before and are under way.
C25_ConversationOfThePair ==
  [][(resp'.op = "getConversation" /\ resp'.code = 200) =>
       \A a, b \in Users :
         GetMessages(a, b) =>
           LET pair == {m \in messages : \/ m.senderId = a /\ m.receiverId = b
                                         \/ m.senderId = b /\ m.receiverId = a}
               list == resp'.list
           IN /\ Len(list) = Cardinality(pair)
              /\ {list[i] : i \in DOMAIN list} = {m.id : m \in pair}
              /\ \A i, j \in DOMAIN list :
                   i < j => \A mi, mj \in pair :
                              (mi.id = list[i] /\ mj.id = list[j])
                              => mi.createdAt <= mj.createdAt]_vars

\* a conversation was answered with its one message while a message that
\* involves a third user exists and is left out
C25_Witness ==
  /\ resp.op = "getConversation" /\ resp.code = 200
  /\ Len(resp.list) = 1
  /\ \E m, n \in messages :
       /\ m.id = resp.list[1] /\ n.id # m.id
       /\ {n.senderId, n.receiverId} # {m.senderId, m.receiverId}

\* the messages after markRead(receiverId, senderId): those from senderId to
\* receiverId are read, every other message is as it was
MarkedRead(receiverId, senderId) ==
  messages' = {[m EXCEPT !.read = m.read \/ (m.receiverId = receiverId /\ m.senderId = senderId)] :
                 m \in messages}

\* C26: the markRead of a conversation request of b for a, and of a
\* read_messages event of b naming a, sets read on the unread messages from a
\* to b and leaves every other message as it was; and no step takes the read
\* flag of a message from true to false.
C26_MarkReadExactly ==
  [][ /\ \A m \in messages : \A n \in messages' : (n.id = m.id /\ m.read) => n.read
      /\ (resp'.op = "getConversation" /\ resp'.code = 200) =>
           \A b \in Users, a \in Users : GetMessages(b, a) => MarkedRead(b, a)
      /\ (resp'.op = "wsRead" /\ resp'.branch = "read") =>
           \A c \in Chans, a \in Users :
             (sockets[c].readyState = "open" /\ WsReadMessages(c, a))
             => MarkedRead(sockets[c].userId, a) ]_vars

\* a read_messages event has just marked a message read while an unread
\* message of the same receiver from another sender stays unread
C26_Witness ==
  /\ resp.op = "wsRead" /\ resp.branch = "read"
  /\ \E m, n \in messages :
       /\ m.read /\ m.senderId = resp.ret
       /\ ~n.read /\ n.receiverId = m.receiverId /\ n.senderId # m.senderId
       /\ \E c \in Chans : sockets[c].readyState = "open" /\ sockets[c].userId = m.receiverId

\* the replies the gateway sent on connection c in the last step
RepliesOn(c) ==
  {e \in resp.events : e[1] = c /\ e[2] \in {"message_sent", "messages_read", "error"}}

\* C27: a send_message or read_messages event taken up on an open connection
\* is answered on that connection: at once with an error event when it fails a
\* check, and otherwise, its handler awaiting a repository call, eventually, in
\* the step that ends the handler, with message_sent or messages_read when the
\* call completes and with an error event when it fails.
C27_EventIsAnswered ==
  /\ [][ /\ (resp' # resp /\ resp'.op \in {"wsSend", "wsRead"}) =>
               \E c \in Chans, e \in resp'.events :
                 e[1] = c /\ e[2] \in {"message_sent", "messages_read", "error"}
         /\ \A p \in Slots :
              (inflight[p].op \in {"wsSend", "wsRead"} /\ inflight'[p] # inflight[p])
              => /\ inflight'[p] = Idle
                 /\ \E e \in resp'.events :
                      /\ e[1] = inflight[p].arg
                      /\ e[2] \in {"message_sent", "messages_read", "error"}
                      /\ resp'.branch = "failed" => e[2] = "error" ]_vars
  /\ \A p \in Slots, c \in Chans :
       (inflight[p].op \in {"wsSend", "wsRead"} /\ inflight[p].arg = c)
       ~> (inflight[p] = Idle /\ RepliesOn(c) # {})

\* the repository call of a read_messages handler failed and the handler has
\* answered on its connection, which stopped being open in between, while a
\* send_message handler is still awaiting
C27_Witness ==
  /\ resp.op = "wsRead" /\ resp.branch = "failed"
  /\ \E c \in Chans :
       /\ RepliesOn(c) # {} /\ sockets[c].readyState = "closed"
       /\ \E p \in Slots : inflight[p].op = "wsSend" /\ inflight[p].arg = c

\* C28: no step removes the registry entry of a user while the connection the
\* entry points to is open; so when a connection that a newer connection of the
\* same user replaced closes, the newer one stays registered.
C28_OpenEntryStays ==
  [][\A u \in Users :
       ( /\ connectedClients[u] # NoChan
         /\ sockets[connectedClients[u]].readyState = "open"
         /\ sockets'[connectedClients[u]].readyState = "open" )
       => connectedClients'[u] # NoChan]_vars

\* C29: no row of user_matches has the same user as sender and as receiver.
C29_NoSelfMatch ==
  \A m \in userMatches : m.senderId # m.receiverId

\* C30: the hook makes a new WebSocket only when none of the sockets it made
\* before is open.
C30_OneLiveSocket ==
  [][\A s \in 1..MaxClientSockets :
       (useWebSocket.sockets[s] = "none" /\ useWebSocket'.sockets[s] # "none")
       => \A t \in 1..MaxClientSockets : useWebSocket.sockets[t] # "open"]_vars
====
